---- MODULE Spec2Model ----
(***************************************************************************)
(* A model of the unlox tree-walking interpreter: the cactus stack of      *)
(* frames, the AST arena, the recursive-descent parser and the evaluator.  *)
(*                                                                         *)
(* Two state machines share the module.  SpecCactus drives one generic     *)
(* Cactus<T> with push, push_at and pop.  Spec drives one Interpreter:     *)
(* a source is parsed into an Ast and interpreted root statement by root   *)
(* statement.                                                              *)
(***************************************************************************)
EXTENDS Integers, Sequences, FiniteSets, TLC

VARIABLES
    cactus,     \* the Cactus<T> under test: [nodes, stack]
    popped,     \* what the last Cactus::pop returned (Option<T>)
    op,         \* the last Cactus operation that ran
    src,        \* the token stream of the source being run
    ast,        \* the Ast that parse returned for src
    env_tree,   \* Interpreter::env_tree
    out,        \* ctx.out.out(): the lines written to the output sink
    err,        \* ctx.out.err(): the lines written to the error sink
    diag,       \* the diagnostics parse printed for src
    pc,         \* position of interpret's loop in ast.roots (0-based)
    phase,      \* "idle" | "running" | "halted" | "diverged" | "done"
    trace,      \* the events of the current interpret call, in order
    runs,       \* the interpret calls made on this Interpreter before the current one
    lexer,      \* the Lexer under test: [inner, peeked]
    calls,      \* the next() and peek() calls made on lexer, with what they returned
    arglist,    \* the argument loop of the parser's call: [toks, ps, args, at, error]
    tree,       \* the Tree<T> under test: [nodes]
    chunk,      \* the Chunk under test: [code, constants, lines]
    added,      \* the add_constant calls made on chunk: [value, idx], in order
    parser      \* parse's loop over a token stream: [toks, ps, at, from, failed]

cactusVars == <<cactus, popped, op>>
interpVars == <<src, ast, env_tree, out, err, diag, pc, phase, trace, runs>>
lexVars == <<lexer, calls>>
unitVars == <<arglist, tree, chunk, added, parser>>
vars == <<cactus, popped, op, src, ast, env_tree, out, err, diag, pc, phase, trace, runs,
          lexer, calls, arglist, tree, chunk, added, parser>>

(***************************************************************************)
(* Option<T>: None is the empty sequence, Some(v) the one-element one.     *)
(***************************************************************************)
None == <<>>
Some(v) == <<v>>
IsSome(o) == o # <<>>
Unwrap(o) == o[1]

\* let x = v; F(x)
Bind(v, F(_)) == F(v)

Last(s) == s[Len(s)]
ButLast(s) == SubSeq(s, 1, Len(s) - 1)

(***************************************************************************)
(* slab::Slab<Node<T>>.  Keys are 0-based; key k lives at entries[k + 1].  *)
(* A vacant entry remembers the key that was free before it, and next is   *)
(* the key the following insert will use: a removed key is reused first.   *)
(***************************************************************************)
SlabNew == [entries |-> <<>>, next |-> 0]

SlabContains(s, key) ==
    /\ key >= 0
    /\ key < Len(s.entries)
    /\ s.entries[key + 1].occ

SlabInsert(s, node) ==
    LET key == s.next IN
    IF key = Len(s.entries)
    THEN [entries |-> Append(s.entries, [occ |-> TRUE, node |-> node]),
          next |-> key + 1]
    ELSE [entries |-> [s.entries EXCEPT ![key + 1] = [occ |-> TRUE, node |-> node]],
          next |-> s.entries[key + 1].nxt]

SlabTryRemove(s, key) ==
    IF SlabContains(s, key)
    THEN [slab |-> [entries |-> [s.entries EXCEPT ![key + 1] = [occ |-> FALSE, nxt |-> s.next]],
                    next |-> key],
          ret |-> Some(s.entries[key + 1].node)]
    ELSE [slab |-> s, ret |-> None]

(***************************************************************************)
(* Cactus<T>                                                               *)
(***************************************************************************)
CactusNew == [nodes |-> SlabNew, stack |-> <<>>]

contains(c, idx) == SlabContains(c.nodes, idx)

current(c) == IF c.stack = <<>> THEN None ELSE Some(Last(c.stack))

push(c, value) ==
    LET idx == c.nodes.next IN
    [c |-> [nodes |-> SlabInsert(c.nodes, [data |-> value, parent |-> current(c)]),
            stack |-> Append(c.stack, idx)],
     idx |-> idx]

push_at(c, parentIdx, value) ==
    LET idx == c.nodes.next IN
    [c |-> [nodes |-> SlabInsert(c.nodes, [data |-> value, parent |-> Some(parentIdx)]),
            stack |-> Append(c.stack, idx)],
     idx |-> idx]

pop(c) ==
    IF current(c) = None
    THEN [c |-> c, ret |-> None]
    ELSE LET r == SlabTryRemove(c.nodes, Unwrap(current(c))) IN
         IF r.ret = None
         THEN [c |-> c, ret |-> None]
         ELSE [c |-> [nodes |-> r.slab, stack |-> ButLast(c.stack)],
               ret |-> Some(Unwrap(r.ret).data)]

parent(c, idx) == c.nodes.entries[idx + 1].node.parent

node_data(c, idx) ==
    IF contains(c, idx) THEN Some(c.nodes.entries[idx + 1].node.data) ELSE None

(***************************************************************************)
(* Tokens.  A token is [kind, lexeme, line, lit]: lexeme is the source     *)
(* slice the token's range selects, lit the payload of a Number or String  *)
(* kind.  A token stream is a sequence of tokens ending in Eof with a      *)
(* position; next at Eof returns Eof again.                                *)
(***************************************************************************)
LitNil == [t |-> "Nil"]
LitBool(b) == [t |-> "Bool", b |-> b]
\* An f64 is modelled as an exact rational n/d in lowest terms with d > 0;
\* d = 0 holds the non-finite values: 1/0 is inf, -1/0 is -inf, 0/0 is NaN.
LitNumber(n) == [t |-> "Number", n |-> n, d |-> 1]
LitString(s) == [t |-> "String", s |-> s]

Token(kind, lexeme, line, lit) == [kind |-> kind, lexeme |-> lexeme, line |-> line, lit |-> lit]

peek(toks, ps) == toks[ps.pos]

next(toks, ps) ==
    [ps |-> [ps EXCEPT !.pos = IF ps.pos < Len(toks) THEN ps.pos + 1 ELSE ps.pos],
     tok |-> toks[ps.pos]]

match_next(toks, ps, kind) ==
    IF peek(toks, ps).kind = kind
    THEN [ok |-> TRUE, ps |-> next(toks, ps).ps, tok |-> peek(toks, ps)]
    ELSE [ok |-> FALSE, ps |-> ps, tok |-> peek(toks, ps)]

eof(toks, ps) == peek(toks, ps).kind = "Eof"

(***************************************************************************)
(* Ast: two pools and the list of roots.  Indices are 0-based positions;   *)
(* index i lives at position i + 1 of its pool.                            *)
(***************************************************************************)
AstNew == [stmts |-> <<>>, exprs |-> <<>>, roots |-> <<>>]

\* A push that puts the node in front of the pool.
push_stmt_front(a, stmt) ==
    [ast |-> [a EXCEPT !.stmts = <<stmt>> \o a.stmts], idx |-> Len(a.stmts)]

push_stmt(a, stmt) ==
    [ast |-> [a EXCEPT !.stmts = Append(a.stmts, stmt)], idx |-> Len(a.stmts)]

push_root_stmt(a, stmt) ==
    LET r == push_stmt(a, stmt) IN
    [ast |-> [r.ast EXCEPT !.roots = Append(r.ast.roots, r.idx)], idx |-> r.idx]

push_expr(a, expr) ==
    [ast |-> [a EXCEPT !.exprs = Append(a.exprs, expr)], idx |-> Len(a.exprs)]

stmt(a, idx) == a.stmts[idx + 1]
expr(a, idx) == a.exprs[idx + 1]
roots(a) == a.roots

\* push_stmt over a list, left to right: (stmts.into_iter().map(push_stmt))
RECURSIVE push_stmts(_, _, _)
push_stmts(a, stmts, acc) ==
    IF stmts = <<>> THEN [ast |-> a, idxs |-> acc]
    ELSE LET r == push_stmt(a, Head(stmts)) IN
         push_stmts(r.ast, Tail(stmts), Append(acc, r.idx))

\* push_expr over a list, left to right: each lands at the next free index
push_exprs(a, exprs, acc) ==
    [ast |-> [a EXCEPT !.exprs = a.exprs \o exprs],
     idxs |-> acc \o [k \in 1 .. Len(exprs) |-> Len(a.exprs) + k - 1]]

(***************************************************************************)
(* The parser.  ps is [pos, ast, diag]: the stream position, the arena and *)
(* the diagnostics printed so far.  A parse function returns               *)
(* [ok, ps, v]: v is the Stmt or Expr on Ok and the Error on Err.          *)
(***************************************************************************)
MaxArgs == 255

POk(ps, v) == [ok |-> TRUE, ps |-> ps, v |-> v]
PErr(ps, tok, message) == [ok |-> FALSE, ps |-> ps, v |-> [token |-> tok, message |-> message]]
PFail(r) == [ok |-> FALSE, ps |-> r.ps, v |-> r.v]
WithAst(ps, a) == [ps EXCEPT !.ast = a]

SyncKinds == {"Eof", "Class", "Fun", "Var", "For", "If", "While", "Print", "Return"}

RECURSIVE synchronize_loop(_, _, _)
synchronize_loop(toks, ps, cur) ==
    IF cur.kind = "Semicolon" THEN ps
    ELSE IF peek(toks, ps).kind \in SyncKinds THEN ps
    ELSE synchronize_loop(toks, next(toks, ps).ps, next(toks, ps).tok)

synchronize(toks, ps) ==
    synchronize_loop(toks, next(toks, ps).ps, next(toks, ps).tok)

\* Calls that re-enter the grammar (a nested declaration or statement, a nested
\* expression, a right operand) go through Descend, which selects the parse
\* function by its name.
RECURSIVE Descend(_, _, _)

\* stream.match_next(kind).map_err(|token| Error { token, message })? after the
\* step that gave r: a failed r is the function's result already.
Expect(toks, r, kind, message) ==
    IF ~r.ok THEN r
    ELSE LET m == match_next(toks, r.ps, kind) IN
         IF m.ok THEN POk(m.ps, m.tok) ELSE PErr(m.ps, m.tok, message)

SomeOk(r) == IF r.ok THEN POk(r.ps, Some(r.v)) ELSE r

\* Expr::Grouping(ast.push_expr(expr)) once ")" is matched
GroupingNode(toks, e) ==
    IF ~e.ok THEN e
    ELSE IF peek(toks, e.ps).kind # "RightParen"
    THEN PErr(e.ps, peek(toks, e.ps), "Expected \")\" after expression.")
    ELSE LET pe == push_expr(e.ps.ast, e.v) IN
         POk(next(toks, WithAst(e.ps, pe.ast)).ps, [k |-> "Grouping", expr |-> pe.idx])

primary(toks, ps) ==
    LET token == peek(toks, ps)
        lit(v) == POk(next(toks, ps).ps, [k |-> "Literal", value |-> v])
    IN  CASE token.kind = "False" -> lit(LitBool(FALSE))
          [] token.kind = "True" -> lit(LitBool(TRUE))
          [] token.kind = "Nil" -> lit(LitNil)
          [] token.kind = "Number" -> lit(token.lit)
          [] token.kind = "String" -> lit(token.lit)
          [] token.kind = "StringUnterminated" -> PErr(ps, token, "Unterminated string.")
          [] token.kind = "LeftParen" ->
                GroupingNode(toks, Descend("expression", toks, next(toks, ps).ps))
          [] token.kind = "Identifier" -> POk(next(toks, ps).ps, [k |-> "Variable", var |-> token])
          [] token.kind = "Eof" -> PErr(ps, token, "Unexpected end of file.")
          [] OTHER -> PErr(ps, token, "Expected expression.")

\* loop { if args.len() >= 255 { Err(next()) } arg = expression()?; args.push(arg);
\*        if match_next(Comma).is_err() { break } }
RECURSIVE call_args(_, _, _)
call_args(toks, ps, args) ==
    IF Len(args) >= MaxArgs
    THEN PErr(next(toks, ps).ps, next(toks, ps).tok, "Can't have more than 255 arguments")
    ELSE LET arg == Descend("expression", toks, ps) IN
         IF ~arg.ok THEN arg
         ELSE LET comma == match_next(toks, arg.ps, "Comma") IN
              IF comma.ok THEN call_args(toks, comma.ps, Append(args, arg.v))
              ELSE POk(comma.ps, Append(args, arg.v))

\* one turn of call's loop: "(" is next; the arguments, ")" and the Call node
call_turn(toks, callee) ==
    LET ps1 == next(toks, callee.ps).ps
        args == IF peek(toks, ps1).kind # "RightParen"
                THEN call_args(toks, ps1, <<>>)
                ELSE POk(ps1, <<>>)
        paren == Expect(toks, args, "RightParen", "Expect ')' after arguments.")
    IN  IF ~paren.ok THEN paren
        ELSE LET pcallee == push_expr(paren.ps.ast, callee.v)
                 pargs == push_exprs(pcallee.ast, args.v, <<>>)
             IN  POk(WithAst(paren.ps, pargs.ast),
                     [k |-> "Call", callee |-> pcallee.idx, paren |-> paren.v,
                      args |-> pargs.idxs])

\* let mut expr = primary()?; while match_next(LeftParen).is_ok() { expr = Call }
RECURSIVE call_loop(_, _)
call_loop(toks, callee) ==
    IF callee.ok /\ peek(toks, callee.ps).kind = "LeftParen"
    THEN call_loop(toks, call_turn(toks, callee))
    ELSE callee

call(toks, ps) == call_loop(toks, primary(toks, ps))

UnaryNode(token, e) ==
    IF ~e.ok THEN e
    ELSE LET pe == push_expr(e.ps.ast, e.v) IN
         POk(WithAst(e.ps, pe.ast), [k |-> "Unary", operator |-> token, right |-> pe.idx])

\* A unary level that also takes `+` as a prefix operator.
unary_with_plus(toks, ps) ==
    IF peek(toks, ps).kind \in {"Bang", "Minus", "Plus"}
    THEN UnaryNode(next(toks, ps).tok, Descend("unary", toks, next(toks, ps).ps))
    ELSE call(toks, ps)

unary(toks, ps) ==
    IF peek(toks, ps).kind \in {"Bang", "Minus"}
    THEN UnaryNode(next(toks, ps).tok, Descend("unary", toks, next(toks, ps).ps))
    ELSE call(toks, ps)

\* Expr::Binary / Expr::Logical { left: push_expr(expr), operator, right: push_expr(right) }
BinaryNode(node, operator, left, right) ==
    LET pl == push_expr(right.ps.ast, left)
        pr == push_expr(pl.ast, right.v)
    IN  POk(WithAst(right.ps, pr.ast),
            [k |-> node, operator |-> operator, left |-> pl.idx, right |-> pr.idx])

\* One turn of a binary level's loop: the operator is next; sub names the
\* function of the right operand.
BinaryTurn(toks, left, node, sub) ==
    LET right == Descend(sub, toks, next(toks, left.ps).ps) IN
    IF ~right.ok THEN right
    ELSE BinaryNode(node, next(toks, left.ps).tok, left.v, right)

\* let mut expr = sub()?; while let Ok(operator) = match_next(kinds) { .. } Ok(expr)
RECURSIVE factor_loop(_, _)
factor_loop(toks, left) ==
    IF left.ok /\ peek(toks, left.ps).kind \in {"Slash", "Star"}
    THEN factor_loop(toks, BinaryTurn(toks, left, "Binary", "unary"))
    ELSE left

factor(toks, ps) == factor_loop(toks, unary(toks, ps))

RECURSIVE term_loop(_, _)
term_loop(toks, left) ==
    IF left.ok /\ peek(toks, left.ps).kind \in {"Minus", "Plus"}
    THEN term_loop(toks, BinaryTurn(toks, left, "Binary", "factor"))
    ELSE left

term(toks, ps) == term_loop(toks, factor(toks, ps))

RECURSIVE comparison_loop(_, _)
comparison_loop(toks, left) ==
    IF left.ok /\ peek(toks, left.ps).kind \in {"Less", "LessEqual", "Greater", "GreaterEqual"}
    THEN comparison_loop(toks, BinaryTurn(toks, left, "Binary", "term"))
    ELSE left

comparison(toks, ps) == comparison_loop(toks, term(toks, ps))

RECURSIVE equality_loop(_, _)
equality_loop(toks, left) ==
    IF left.ok /\ peek(toks, left.ps).kind \in {"BangEqual", "EqualEqual"}
    THEN equality_loop(toks, BinaryTurn(toks, left, "Binary", "comparison"))
    ELSE left

equality(toks, ps) == equality_loop(toks, comparison(toks, ps))

RECURSIVE and_loop(_, _)
and_loop(toks, left) ==
    IF left.ok /\ peek(toks, left.ps).kind \in {"And"}
    THEN and_loop(toks, BinaryTurn(toks, left, "Logical", "equality"))
    ELSE left

and(toks, ps) == and_loop(toks, equality(toks, ps))

RECURSIVE or_loop(_, _)
or_loop(toks, left) ==
    IF left.ok /\ peek(toks, left.ps).kind \in {"Or"}
    THEN or_loop(toks, BinaryTurn(toks, left, "Logical", "and"))
    ELSE left

or(toks, ps) == or_loop(toks, and(toks, ps))

\* Expr::Assign { var, value: push_expr(value) }, or "Invalid assignment target."
AssignNode(e, equals, value) ==
    IF ~value.ok THEN value
    ELSE IF e.v.k = "Variable"
    THEN LET pv == push_expr(value.ps.ast, value.v) IN
         POk(WithAst(value.ps, pv.ast), [k |-> "Assign", var |-> e.v.var, value |-> pv.idx])
    ELSE PErr(value.ps, equals.tok, "Invalid assignment target.")

\* what assignment does with e = or()
AssignTail(toks, e) ==
    IF ~e.ok THEN e
    ELSE LET equals == match_next(toks, e.ps, "Equal") IN
         IF ~equals.ok THEN e
         ELSE AssignNode(e, equals, Descend("assignment", toks, equals.ps))

assignment(toks, ps) == AssignTail(toks, or(toks, ps))

expression(toks, ps) == assignment(toks, ps)

\* ";" after the expression e, then Stmt::Expression / Stmt::Print of it
ExprStmt(toks, kind, e, message) ==
    LET semi == Expect(toks, e, "Semicolon", message) IN
    IF e.ok /\ semi.ok
    THEN LET pe == push_expr(semi.ps.ast, e.v) IN
         POk(WithAst(semi.ps, pe.ast), [k |-> kind, expr |-> pe.idx])
    ELSE semi

expression_statement(toks, ps) ==
    ExprStmt(toks, "Expression", Descend("expression", toks, ps),
             "Expected ';' after expression.")

print_statement(toks, ps) ==
    ExprStmt(toks, "Print", Descend("expression", toks, ps), "Expected ';' after value.")

\* r?; then Some(fn's result) unless the next token is `unless`, else None
ThenUnless(toks, r, unless, fn) ==
    IF ~r.ok THEN r
    ELSE IF peek(toks, r.ps).kind # unless
    THEN SomeOk(Descend(fn, toks, r.ps))
    ELSE POk(r.ps, None)

\* ";" after the optional value e, then Stmt::Return
ReturnTail(toks, keyword, e) ==
    LET semi == Expect(toks, e, "Semicolon", "Expected ';' after return value.") IN
    IF e.ok /\ semi.ok
    THEN IF IsSome(e.v)
         THEN LET pe == push_expr(semi.ps.ast, Unwrap(e.v)) IN
              POk(WithAst(semi.ps, pe.ast),
                  [k |-> "Return", token |-> keyword, expr |-> Some(pe.idx)])
         ELSE POk(semi.ps, [k |-> "Return", token |-> keyword, expr |-> None])
    ELSE semi

\* return_stmt -> "return" expression? ";"
return_statement(toks, ps, keyword) ==
    ReturnTail(toks, keyword, ThenUnless(toks, POk(ps, None), "Semicolon", "expression"))

\* let init = if stream.match_next(Equal) { Some(expression()?) } else { None };
VarDeclInit(toks, name) ==
    IF ~name.ok THEN name
    ELSE IF peek(toks, name.ps).kind = "Equal"
    THEN SomeOk(Descend("expression", toks, next(toks, name.ps).ps))
    ELSE POk(name.ps, None)

\* ";" after the initialiser, then Stmt::VarDecl
VarDeclTail(toks, name, init) ==
    LET semi == Expect(toks, init, "Semicolon", "Expected ';' after variable declaration.") IN
    IF init.ok /\ semi.ok
    THEN IF IsSome(init.v)
         THEN LET pe == push_expr(semi.ps.ast, Unwrap(init.v)) IN
              POk(WithAst(semi.ps, pe.ast),
                  [k |-> "VarDecl", name |-> name.v, init |-> Some(pe.idx)])
         ELSE POk(semi.ps, [k |-> "VarDecl", name |-> name.v, init |-> None])
    ELSE semi

VarDeclName(toks, name) == VarDeclTail(toks, name, VarDeclInit(toks, name))

var_decl(toks, ps) ==
    VarDeclName(toks, Expect(toks, POk(ps, None), "Identifier", "Expected variable name."))

\* r?; then the sub-parser named fn
Then(toks, r, fn) == IF r.ok THEN Descend(fn, toks, r.ps) ELSE r

\* Stmt::While { cond: ast.push_expr(cond), body: ast.push_stmt(body) }
WhileNode(cond, body) ==
    IF cond.ok /\ body.ok
    THEN LET pcnd == push_expr(body.ps.ast, cond.v)
             pbd == push_stmt(pcnd.ast, body.v)
         IN  POk(WithAst(body.ps, pbd.ast),
                 [k |-> "While", cond |-> pcnd.idx, body |-> pbd.idx])
    ELSE body

\* ")" and the body, after the condition
WhileBody(toks, cond) ==
    WhileNode(cond, Then(toks, Expect(toks, cond, "RightParen", "Expected ')' after condition."),
                         "statement"))

while_statement(toks, ps) ==
    WhileBody(toks, Then(toks, Expect(toks, POk(ps, None), "LeftParen",
                                      "Expected '(' after 'while'."),
                         "expression"))

\* Stmt::If { cond, then_branch, else_branch } with its parts pushed
IfNode(cond, then_branch, else_branch) ==
    IF cond.ok /\ then_branch.ok /\ else_branch.ok
    THEN LET pcnd == push_expr(else_branch.ps.ast, cond.v)
             pth == push_stmt(pcnd.ast, then_branch.v)
             pel == IF IsSome(else_branch.v)
                    THEN LET q == push_stmt(pth.ast, Unwrap(else_branch.v)) IN
                         [ast |-> q.ast, idx |-> Some(q.idx)]
                    ELSE [ast |-> pth.ast, idx |-> None]
         IN  POk(WithAst(else_branch.ps, pel.ast),
                 [k |-> "If", cond |-> pcnd.idx, then_branch |-> pth.idx,
                  else_branch |-> pel.idx])
    ELSE else_branch

\* let else_branch = if stream.match_next(Else) { Some(statement()?) } else { None };
ElseBranch(toks, then_branch) ==
    IF ~then_branch.ok THEN then_branch
    ELSE LET el == match_next(toks, then_branch.ps, "Else") IN
         IF el.ok THEN SomeOk(Descend("statement", toks, el.ps)) ELSE POk(el.ps, None)

IfElse(toks, cond, then_branch) == IfNode(cond, then_branch, ElseBranch(toks, then_branch))

\* ")" and the then branch, after the condition
IfThen(toks, cond) ==
    IfElse(toks, cond,
           Then(toks, Expect(toks, cond, "RightParen", "Expected ')' after if condition."),
                "statement"))

if_statement(toks, ps) ==
    IfThen(toks, Then(toks, Expect(toks, POk(ps, None), "LeftParen",
                                   "Expected '(' after 'if'."),
                      "expression"))

\* the loop built from the clauses, with the increment placed before the body
ForLowerIncFirst(a0, init, cond, inc, body) ==
    LET withInc ==
            IF IsSome(inc)
            THEN LET pi == push_expr(a0, Unwrap(inc))
                     pe == push_stmt(pi.ast, [k |-> "Expression", expr |-> pi.idx])
                     pb == push_stmt(pe.ast, body)
                 IN  [ast |-> pb.ast, body |-> [k |-> "Block", stmts |-> <<pe.idx, pb.idx>>]]
            ELSE [ast |-> a0, body |-> body]
        condExpr == IF IsSome(cond) THEN Unwrap(cond)
                    ELSE [k |-> "Literal", value |-> LitBool(TRUE)]
        pc1 == push_expr(withInc.ast, condExpr)
        pb1 == push_stmt(pc1.ast, withInc.body)
        while_stmt == [k |-> "While", cond |-> pc1.idx, body |-> pb1.idx]
    IN
    IF IsSome(init)
    THEN LET pin == push_stmt(pb1.ast, Unwrap(init))
             pw == push_stmt(pin.ast, while_stmt)
         IN  [ast |-> pw.ast, v |-> [k |-> "Block", stmts |-> <<pin.idx, pw.idx>>]]
    ELSE [ast |-> pb1.ast, v |-> while_stmt]

\* the tail of for_statement: the statement built from the parsed clauses
ForLower(a0, init, cond, inc, body) ==
    LET \* if let Some(inc) = inc { body = Block[push(body), push(Expression(push(inc)))] }
        withInc ==
            IF IsSome(inc)
            THEN LET pi == push_expr(a0, Unwrap(inc))
                     pb == push_stmt(pi.ast, body)
                     pe == push_stmt(pb.ast, [k |-> "Expression", expr |-> pi.idx])
                 IN  [ast |-> pe.ast, body |-> [k |-> "Block", stmts |-> <<pb.idx, pe.idx>>]]
            ELSE [ast |-> a0, body |-> body]
        \* cond.unwrap_or(Expr::Literal(Lit::Bool(true)))
        condExpr == IF IsSome(cond) THEN Unwrap(cond)
                    ELSE [k |-> "Literal", value |-> LitBool(TRUE)]
        pc1 == push_expr(withInc.ast, condExpr)
        pb1 == push_stmt(pc1.ast, withInc.body)
        while_stmt == [k |-> "While", cond |-> pc1.idx, body |-> pb1.idx]
    IN
    IF IsSome(init)
    THEN LET pin == push_stmt(pb1.ast, Unwrap(init))
             pw == push_stmt(pin.ast, while_stmt)
         IN  [ast |-> pw.ast, v |-> [k |-> "Block", stmts |-> <<pin.idx, pw.idx>>]]
    ELSE [ast |-> pb1.ast, v |-> while_stmt]

\* the initialiser clause: ";" | var_decl | expression_statement
ForInit(toks, lp) ==
    IF ~lp.ok THEN lp
    ELSE CASE peek(toks, lp.ps).kind = "Semicolon" -> POk(next(toks, lp.ps).ps, None)
           [] peek(toks, lp.ps).kind = "Var" ->
                 SomeOk(Descend("var_decl", toks, next(toks, lp.ps).ps))
           [] OTHER -> SomeOk(Descend("expression_statement", toks, lp.ps))

ForNode(init, cond, inc, body0) ==
    IF init.ok /\ cond.ok /\ inc.ok /\ body0.ok
    THEN LET lowered == ForLower(body0.ps.ast, init.v, cond.v, inc.v, body0.v) IN
         POk(WithAst(body0.ps, lowered.ast), lowered.v)
    ELSE body0

\* ")" and the body, after the increment clause
ForBody(toks, init, cond, inc) ==
    ForNode(init, cond, inc,
            Then(toks, Expect(toks, inc, "RightParen", "Expected ')' after for clauses."),
                 "statement"))

\* ";" and the increment clause, after the condition clause
ForInc(toks, init, cond) ==
    ForBody(toks, init, cond,
            ThenUnless(toks, Expect(toks, cond, "Semicolon",
                                    "Expected ';' after loop condition."),
                       "RightParen", "expression"))

ForCond(toks, init) == ForInc(toks, init, ThenUnless(toks, init, "Semicolon", "expression"))

for_statement(toks, ps) ==
    ForCond(toks, ForInit(toks, Expect(toks, POk(ps, None), "LeftParen",
                                       "Expected '(' after 'for'.")))

\* stmts.push(declaration(stream, ast));
BlockPush(acc, d) == POk(d.ps, Append(acc.v, d.v))

\* while stream.peek().kind != RightBrace && !stream.eof() { .. }
RECURSIVE block_loop(_, _)
block_loop(toks, acc) ==
    IF peek(toks, acc.ps).kind # "RightBrace" /\ ~eof(toks, acc.ps)
    THEN block_loop(toks, BlockPush(acc, Descend("declaration", toks, acc.ps)))
    ELSE acc

\* stream.expect(RightBrace, ..)?; Ok(stmts)
BlockEnd(toks, l) ==
    LET rb == Expect(toks, l, "RightBrace", "Expect '}' after block.") IN
    IF rb.ok THEN POk(rb.ps, l.v) ELSE rb

block(toks, ps) == BlockEnd(toks, block_loop(toks, POk(ps, <<>>)))

\* Stmt::Block(stmts.into_iter().map(|s| ast.push_stmt(s)).collect())
BlockNode(b) ==
    IF ~b.ok THEN b
    ELSE LET pushed == push_stmts(b.ps.ast, b.v, <<>>) IN
         POk(WithAst(b.ps, pushed.ast), [k |-> "Block", stmts |-> pushed.idxs])

\* The "Return" arm is the grammar's return_stmt, which the parser under src/
\* does not have.
statement(toks, ps) ==
    LET token == peek(toks, ps)
        ps1 == next(toks, ps).ps
    IN  CASE token.kind = "For" -> for_statement(toks, ps1)
          [] token.kind = "If" -> if_statement(toks, ps1)
          [] token.kind = "Print" -> print_statement(toks, ps1)
          [] token.kind = "While" -> while_statement(toks, ps1)
          [] token.kind = "Return" -> return_statement(toks, ps1, token)
          [] token.kind = "LeftBrace" -> BlockNode(block(toks, ps1))
          [] OTHER -> expression_statement(toks, ps)

\* params -> IDENT ("," IDENT)*
RECURSIVE fun_params(_, _, _)
fun_params(toks, ps, params) ==
    IF Len(params) >= MaxArgs
    THEN PErr(ps, peek(toks, ps), "Can't have more than 255 parameters.")
    ELSE LET p == match_next(toks, ps, "Identifier") IN
         IF ~p.ok THEN PErr(p.ps, p.tok, "Expected parameter name.")
         ELSE LET comma == match_next(toks, p.ps, "Comma") IN
              IF comma.ok THEN fun_params(toks, comma.ps, Append(params, p.tok))
              ELSE POk(comma.ps, Append(params, p.tok))

FunParams(toks, lp) ==
    IF ~lp.ok THEN lp
    ELSE IF peek(toks, lp.ps).kind # "RightParen"
    THEN fun_params(toks, lp.ps, <<>>)
    ELSE POk(lp.ps, <<>>)

\* ")" "{" block, after the parameters
FunBody(toks, params) ==
    LET lb == Expect(toks, Expect(toks, params, "RightParen", "Expected ')' after parameters."),
                     "LeftBrace", "Expected '{' before function body.")
    IN  IF lb.ok THEN block(toks, lb.ps) ELSE lb

FunNode(name, params, b) ==
    IF ~b.ok THEN b
    ELSE LET pushed == push_stmts(b.ps.ast, b.v, <<>>) IN
         POk(WithAst(b.ps, pushed.ast),
             [k |-> "Function", name |-> name.v, params |-> params.v,
              body |-> pushed.idxs])

FunTail(toks, name, params) == FunNode(name, params, FunBody(toks, params))

FunName(toks, name) ==
    FunTail(toks, name,
            FunParams(toks, Expect(toks, name, "LeftParen",
                                   "Expected '(' after function name.")))

\* fun_decl -> "fun" IDENT "(" params? ")" block
fun_decl(toks, ps) ==
    FunName(toks, Expect(toks, POk(ps, None), "Identifier", "Expected function name."))

ParseErrStmt(e) == [k |-> "ParseErr", token |-> e.token, err |-> e.message]

\* result.inspect_err(|e| eprintln!("{e}")).ok()
\*       .unwrap_or_else(|| { synchronize(stream); Stmt::ParseErr })
Recover(toks, result) ==
    IF result.ok
    THEN [ps |-> result.ps, v |-> result.v]
    ELSE [ps |-> synchronize(toks, [result.ps EXCEPT !.diag = Append(@, result.v.message)]),
          v |-> ParseErrStmt(result.v)]

\* let result = match &token.kind { Var => { stream.next(); var_decl(..) } _ => statement(..) }
\* The "Fun" arm is the grammar's fun_decl, which the parser under src/ does not have.
declaration_arm(toks, ps) ==
    LET token == peek(toks, ps) IN
    CASE token.kind = "Var" -> var_decl(toks, next(toks, ps).ps)
      [] token.kind = "Fun" -> fun_decl(toks, next(toks, ps).ps)
      [] OTHER -> statement(toks, ps)

\* declaration always yields a Stmt: [ps, v].
declaration(toks, ps) == Recover(toks, declaration_arm(toks, ps))

Descend(fn, toks, ps) ==
    CASE fn = "declaration" -> declaration(toks, ps)
      [] fn = "declaration_arm" -> declaration_arm(toks, ps)
      [] fn = "statement" -> statement(toks, ps)
      [] fn = "var_decl" -> var_decl(toks, ps)
      [] fn = "expression_statement" -> expression_statement(toks, ps)
      [] fn = "expression" -> expression(toks, ps)
      [] fn = "assignment" -> assignment(toks, ps)
      [] fn = "or" -> or(toks, ps)
      [] fn = "and" -> and(toks, ps)
      [] fn = "equality" -> equality(toks, ps)
      [] fn = "comparison" -> comparison(toks, ps)
      [] fn = "term" -> term(toks, ps)
      [] fn = "factor" -> factor(toks, ps)
      [] fn = "unary" -> unary(toks, ps)
      [] fn = "call" -> call(toks, ps)
      [] fn = "primary" -> primary(toks, ps)

\* let stmt = declaration(&mut stream, &mut ast); ast.push_root_stmt(stmt);
PushRoot(d) == WithAst(d.ps, push_root_stmt(d.ps.ast, d.v).ast)

ParseRoot(toks, ps) == PushRoot(Descend("declaration", toks, ps))

RECURSIVE parse_loop(_, _)
parse_loop(toks, ps) ==
    IF ~eof(toks, ps) THEN parse_loop(toks, ParseRoot(toks, ps)) ELSE ps

\* parse returns the Ast; diag is what it printed on the way.
ParseResult(ps) == [ast |-> ps.ast, diag |-> ps.diag]

parse(toks) == ParseResult(parse_loop(toks, [pos |-> 1, ast |-> AstNew, diag |-> <<>>]))

(***************************************************************************)
(* Val: the runtime values.  Lit's four variants keep their records;       *)
(* Callable adds Clock and Function{name, params, body}.                   *)
(***************************************************************************)
ValNil == LitNil
ValBool(b) == LitBool(b)
ValString(s) == LitString(s)
ValClock == [t |-> "Callable", c |-> [k |-> "Clock"]]
ValFunction(name, params, body) ==
    [t |-> "Callable", c |-> [k |-> "Function", name |-> name, params |-> params, body |-> body]]

ValFromLit(lit) == lit

\* A truthiness that also takes the number 0 and the empty string for false.
is_truthy_like_c(v) ==
    ~(\/ v.t = "Nil"
      \/ (v.t = "Bool" /\ ~v.b)
      \/ (v.t = "Number" /\ v.n = 0)
      \/ (v.t = "String" /\ v.s = ""))

\* !matches!(self, Self::Nil | Self::Bool(false))
is_truthy(v) == ~(v.t = "Nil" \/ (v.t = "Bool" /\ ~v.b))

arity(c) == IF c.k = "Clock" THEN 0 ELSE Len(c.params)

Abs(i) == IF i < 0 THEN -i ELSE i
Sign(i) == IF i < 0 THEN -1 ELSE IF i > 0 THEN 1 ELSE 0

RECURSIVE Gcd(_, _)
Gcd(x, y) == IF y = 0 THEN x ELSE Gcd(y, x % y)

\* The f64 nearest n/d, as far as the model goes: the reduced fraction.
Num(n, d) ==
    IF d = 0 THEN [t |-> "Number", n |-> Sign(n), d |-> 0]
    ELSE LET g == Gcd(Abs(n), Abs(d))
             sg == IF d < 0 THEN -1 ELSE 1
         IN  [t |-> "Number", n |-> (sg * n) \div g, d |-> Abs(d) \div g]

IsNaN(v) == v.d = 0 /\ v.n = 0

NumNeg(x) == [x EXCEPT !.n = -x.n]
NumAdd(x, y) ==
    IF x.d = 0 \/ y.d = 0
    THEN (IF x.d = 0 /\ y.d = 0 THEN (IF x.n = y.n THEN x ELSE Num(0, 0))
          ELSE IF x.d = 0 THEN x ELSE y)
    ELSE Num(x.n * y.d + y.n * x.d, x.d * y.d)
NumSub(x, y) == NumAdd(x, NumNeg(y))
NumMul(x, y) ==
    IF x.d = 0 \/ y.d = 0 THEN Num(Sign(x.n) * Sign(y.n), 0)
    ELSE Num(x.n * y.n, x.d * y.d)
NumDiv(x, y) ==
    IF y.d = 0 THEN (IF x.d = 0 THEN Num(0, 0) ELSE Num(0, 1))
    ELSE IF x.d = 0 THEN Num(IF y.n < 0 THEN -x.n ELSE x.n, 0)
    ELSE Num(x.n * y.d, x.d * y.n)
\* every comparison with NaN is false; the two infinities compare by sign
NumLess(x, y) ==
    IF IsNaN(x) \/ IsNaN(y) THEN FALSE
    ELSE IF x.d = 0 \/ y.d = 0
    THEN (IF x.d = 0 /\ y.d = 0 THEN x.n < y.n
          ELSE IF x.d = 0 THEN x.n < 0 ELSE y.n > 0)
    ELSE x.n * y.d < y.n * x.d
NumEq(x, y) == ~IsNaN(x) /\ ~IsNaN(y) /\ x = y

\* #[derive(PartialEq)] on Val
ValEq(l, r) ==
    IF l.t # r.t THEN FALSE
    ELSE IF l.t = "Number" THEN NumEq(l, r)
    ELSE l = r

DisplayNumber(v) ==
    IF v.d = 1 THEN ToString(v.n)
    ELSE IF v.d = 0 THEN (IF v.n > 0 THEN "inf" ELSE IF v.n < 0 THEN "-inf" ELSE "NaN")
    ELSE ToString(v.n) \o "/" \o ToString(v.d)

\* impl Display for Val: every arm is a writeln!, so the text ends in "\n".
\* The Function arm is not in the Callable under src/.
DisplayVal(v) ==
    CASE v.t = "Number" -> DisplayNumber(v) \o "\n"
      [] v.t = "String" -> v.s \o "\n"
      [] v.t = "Bool" -> (IF v.b THEN "true" ELSE "false") \o "\n"
      [] v.t = "Nil" -> "nil\n"
      [] v.t = "Callable" ->
            IF v.c.k = "Clock" THEN "<native fn>\n" ELSE "<fn " \o v.c.name \o ">\n"

(***************************************************************************)
(* Error: the runtime errors and their #[error(...)] texts.                *)
(***************************************************************************)
ErrorText(e) ==
    LET at == "[Line " \o ToString(e.line) \o "]: " IN
    CASE e.kind = "ExpectedNumber" -> at \o "Operand must be a number."
      [] e.kind = "ExpectedNumbers" -> at \o "Operands must be numbers."
      [] e.kind = "ExpectedNumbersOrStrings" -> at \o "Operands must be two numbers or two strings."
      [] e.kind = "UndefinedVariable" -> at \o "Undefined variable " \o e.name \o "."
      [] e.kind = "BadCall" -> at \o "Can only call functions and classes."
      [] e.kind = "WrongNumberOfArgs" ->
            at \o "Expected " \o ToString(e.expected) \o " arguments but got " \o ToString(e.got) \o "."
      [] e.kind = "Parsing" -> at \o "The program terminated due to a syntax error: " \o e.err

Error(kind, tok) == [kind |-> kind, line |-> tok.line]

(***************************************************************************)
(* Env and EnvCactus: a Cactus of frames, each a map from names to Vals.   *)
(* The env module that lib.rs imports is not under src/; these follow its  *)
(* uses in lib.rs and the description of the environment cactus.           *)
(***************************************************************************)
EnvNew == [n \in {} |-> ValNil]

define_var(env, name, val) == (name :> val) @@ env

EnvCactus_with_global(env) == push(CactusNew, env).c

EnvCactus_global(c) == c.stack[1]

EnvCactus_current(c) == Unwrap(current(c))

\* A push that makes the new frame the whole active stack.
EnvCactus_push_at_switching(c, env_parent, env) ==
    [push_at(c, env_parent, env).c EXCEPT !.stack = <<Last(@)>>]

EnvCactus_push_at(c, env_parent, env) == push_at(c, env_parent, env).c

\* pop refuses to pop the root
EnvCactus_pop(c) == IF Len(c.stack) <= 1 THEN c ELSE pop(c).c

\* A definition that lands in the global frame.
EnvCactus_define_var_global(c, name, val) ==
    [c EXCEPT !.nodes.entries[c.stack[1] + 1].node.data = define_var(@, name, val)]

EnvCactus_define_var(c, name, val) ==
    LET i == EnvCactus_current(c) IN
    [c EXCEPT !.nodes.entries[i + 1].node.data = define_var(@, name, val)]

\* The frame farthest from idx, on the way to the root, that defines name.
RECURSIVE DefiningFrameOutermost(_, _, _)
DefiningFrameOutermost(c, idx, name) ==
    LET outer == IF parent(c, idx) = None THEN None
                 ELSE DefiningFrameOutermost(c, Unwrap(parent(c, idx)), name)
    IN  IF outer # None THEN outer
        ELSE IF name \in DOMAIN Unwrap(node_data(c, idx)) THEN Some(idx)
        ELSE None

\* the first frame, from idx toward the root, that defines name
RECURSIVE DefiningFrame(_, _, _)
DefiningFrame(c, idx, name) ==
    IF name \in DOMAIN Unwrap(node_data(c, idx)) THEN Some(idx)
    ELSE IF parent(c, idx) = None THEN None
    ELSE DefiningFrame(c, Unwrap(parent(c, idx)), name)

EnvCactus_var(c, name) ==
    LET f == DefiningFrame(c, EnvCactus_current(c), name) IN
    IF f = None THEN None ELSE Some(Unwrap(node_data(c, Unwrap(f)))[name])

\* An assignment that declares the name in the active frame when nothing defines it.
EnvCactus_assign_var_declaring(c, name, value) ==
    LET f == DefiningFrame(c, EnvCactus_current(c), name) IN
    IF f = None THEN [c |-> EnvCactus_define_var(c, name, value), ret |-> Some(value)]
    ELSE [c |-> [c EXCEPT !.nodes.entries[Unwrap(f) + 1].node.data[name] = value],
          ret |-> Some(value)]

EnvCactus_assign_var(c, name, value) ==
    LET f == DefiningFrame(c, EnvCactus_current(c), name) IN
    IF f = None THEN [c |-> c, ret |-> None]
    ELSE [c |-> [c EXCEPT !.nodes.entries[Unwrap(f) + 1].node.data[name] = value],
          ret |-> Some(value)]

new_global_env == define_var(EnvNew, "clock", ValClock)

InterpreterNew == EnvCactus_with_global(new_global_env)

(***************************************************************************)
(* The evaluator.  st is what a call may change or read: the environment   *)
(* tree, the output sink, the event trace, the wall clock of this step and *)
(* the steps left before the run counts as not terminating.  execute and   *)
(* evaluate return [ok, st, v]: v is the ControlFlow or Val on Ok and the  *)
(* Error on Err.                                                           *)
(***************************************************************************)
ROk(st, v) == [ok |-> TRUE, st |-> st, v |-> v]
RErr(st, e) == [ok |-> FALSE, st |-> st, v |-> e]

Continue == [cf |-> "Continue"]
Break(val) == [cf |-> "Break", val |-> val]
is_break(control_flow) == control_flow.cf = "Break"

Exhausted == [kind |-> "Exhausted", line |-> 0]

Log(st, event) == [st EXCEPT !.trace = Append(@, event)]

RECURSIVE execute(_, _, _), execute_block(_, _, _, _, _), ExecuteStmts(_, _, _),
          ExecuteWhile(_, _, _, _), evaluate(_, _, _), EvaluateArgs(_, _, _, _),
          EvalLogical(_, _, _),
          Interpreter_call(_, _, _, _)

EvalUnary(st, operator, right) ==
    CASE operator.kind = "Bang" -> ROk(st, ValBool(~is_truthy(right)))
      [] operator.kind = "Minus" /\ right.t = "Number" -> ROk(st, NumNeg(right))
      [] operator.kind = "Minus" -> RErr(st, Error("ExpectedNumber", operator))

EvalBinary(st, operator, l, r) ==
    LET k == operator.kind
        nums == l.t = "Number" /\ r.t = "Number"
    IN  CASE k = "Minus" /\ nums -> ROk(st, NumSub(l, r))
          [] k = "Slash" /\ nums -> ROk(st, NumDiv(l, r))
          [] k = "Star" /\ nums -> ROk(st, NumMul(l, r))
          [] k = "Plus" /\ nums -> ROk(st, NumAdd(l, r))
          [] k = "Plus" /\ l.t = "String" /\ r.t = "String" -> ROk(st, ValString(l.s \o r.s))
          [] k = "Greater" /\ nums -> ROk(st, ValBool(NumLess(r, l)))
          [] k = "GreaterEqual" /\ nums -> ROk(st, ValBool(NumLess(r, l) \/ NumEq(l, r)))
          [] k = "Less" /\ nums -> ROk(st, ValBool(NumLess(l, r)))
          [] k = "LessEqual" /\ nums -> ROk(st, ValBool(NumLess(l, r) \/ NumEq(l, r)))
          [] k = "BangEqual" -> ROk(st, ValBool(~ValEq(l, r)))
          [] k = "EqualEqual" -> ROk(st, ValBool(ValEq(l, r)))
          [] k = "Plus" -> RErr(st, Error("ExpectedNumbersOrStrings", operator))
          [] k \in {"Greater", "GreaterEqual", "Less", "LessEqual", "Minus", "Slash", "Star"} ->
                RErr(st, Error("ExpectedNumbers", operator))

\* A Logical that evaluates both operands before it chooses.
EvalLogicalEager(a, left, e) ==
    Bind(evaluate(a, left.st, e.right), LAMBDA right :
    IF ~right.ok THEN right
    ELSE IF (e.operator.kind = "Or") = is_truthy(left.v) THEN ROk(right.st, left.v)
    ELSE right)

\* match (&operator.kind, left.is_truthy()) { (Or, true) => left, (Or, false) => right,
\*                                            (_, false) => left, _ => right }
EvalLogical(a, left, e) ==
    CASE e.operator.kind = "Or" /\ is_truthy(left.v) -> left
      [] e.operator.kind = "Or" /\ ~is_truthy(left.v) -> evaluate(a, left.st, e.right)
      [] e.operator.kind # "Or" /\ ~is_truthy(left.v) -> left
      [] OTHER -> evaluate(a, left.st, e.right)

\* Expr::Variable: self.env_tree.var(name)
EvalVariable(st, e) ==
    LET name == e.var.lexeme
        found == EnvCactus_var(st.env, name)
    IN  IF found = None
        THEN RErr(Log(st, [e |-> "undefined", how |-> "read", name |-> name,
                           before |-> st.env, after |-> st.env]),
                  [kind |-> "UndefinedVariable", line |-> e.var.line, name |-> name])
        ELSE ROk(Log(st, [e |-> "read", name |-> name, val |-> Unwrap(found),
                          env |-> st.env]),
                 Unwrap(found))

\* Expr::Assign, once the value is evaluated: self.env_tree.assign_var(name, value)
EvalAssign(value, e) ==
    LET name == e.var.lexeme
        assigned == EnvCactus_assign_var(value.st.env, name, value.v)
    IN  IF assigned.ret = None
        THEN RErr(Log([value.st EXCEPT !.env = assigned.c],
                      [e |-> "undefined", how |-> "assign", name |-> name,
                       before |-> value.st.env, after |-> assigned.c]),
                  [kind |-> "UndefinedVariable", line |-> e.var.line, name |-> name])
        ELSE ROk(Log([value.st EXCEPT !.env = assigned.c],
                     [e |-> "write", name |-> name, val |-> value.v,
                      ret |-> Unwrap(assigned.ret),
                      before |-> value.st.env, after |-> assigned.c]),
                 Unwrap(assigned.ret))

evaluate(a, st0, eidx) ==
    LET e == expr(a, eidx)
        st == Log(st0, [e |-> "eval", expr |-> eidx])
    IN  CASE e.k = "Literal" -> ROk(st, ValFromLit(e.value))
          [] e.k = "Grouping" -> evaluate(a, st, e.expr)
          [] e.k = "Unary" ->
                Bind(evaluate(a, st, e.right), LAMBDA right :
                IF ~right.ok THEN right ELSE EvalUnary(right.st, e.operator, right.v))
          [] e.k = "Binary" ->
                Bind(evaluate(a, st, e.left), LAMBDA left :
                IF ~left.ok THEN left ELSE
                Bind(evaluate(a, left.st, e.right), LAMBDA right :
                IF ~right.ok THEN right
                ELSE EvalBinary(right.st, e.operator, left.v, right.v)))
          [] e.k = "Variable" -> EvalVariable(st, e)
          [] e.k = "Assign" ->
                Bind(evaluate(a, st, e.value), LAMBDA value :
                IF ~value.ok THEN value ELSE EvalAssign(value, e))
          [] e.k = "Logical" ->
                Bind(evaluate(a, st, e.left), LAMBDA left :
                IF ~left.ok THEN left ELSE EvalLogical(a, left, e))
          [] e.k = "Call" ->
                Bind(evaluate(a, st, e.callee), LAMBDA callee :
                IF ~callee.ok THEN callee ELSE
                IF callee.v.t # "Callable" THEN RErr(callee.st, Error("BadCall", e.paren)) ELSE
                Bind(EvaluateArgs(a, callee.st, e.args, <<>>), LAMBDA args :
                IF ~args.ok THEN args ELSE
                IF Len(args.v) # arity(callee.v.c)
                THEN RErr(args.st, [kind |-> "WrongNumberOfArgs", line |-> e.paren.line,
                                    expected |-> arity(callee.v.c), got |-> Len(args.v)])
                ELSE Interpreter_call(a, args.st, callee.v.c, args.v)))

\* args.iter().map(|arg| self.evaluate(arg)).collect::<Result<Vec<_>>>()
EvaluateArgs(a, st, args, acc) ==
    IF args = <<>> THEN ROk(st, acc)
    ELSE Bind(evaluate(a, st, Head(args)), LAMBDA r :
         IF ~r.ok THEN r ELSE EvaluateArgs(a, r.st, Tail(args), Append(acc, r.v)))

\* for (param, arg) in params.iter().zip(args) { env.define_var(param.lexeme, arg) }
RECURSIVE BindParams(_, _, _)
BindParams(env, params, args) ==
    IF params = <<>> \/ args = <<>> THEN env
    ELSE BindParams(define_var(env, Head(params).lexeme, Head(args)), Tail(params), Tail(args))

\* A call that parents the frame at the call site (dynamic scoping).
CallParentAtCallSite(st) == EnvCactus_current(st.env)

\* self.env_tree.global(): the frame a call's body runs in is parented at the
\* global frame.
CallParent(st) == EnvCactus_global(st.env)

\* The parameters defined in the frame that is current at the call.
RECURSIVE DefineParamsInPlace(_, _, _)
DefineParamsInPlace(c, params, args) ==
    IF params = <<>> \/ args = <<>> THEN c
    ELSE DefineParamsInPlace(EnvCactus_define_var(c, Head(params).lexeme, Head(args)),
                             Tail(params), Tail(args))

\* A call that runs the body in the caller's frame instead of a frame of its own.
Interpreter_call_in_place(a, st, callable, args) ==
    IF callable.k = "Clock" THEN ROk(st, Num(st.now, 1))
    ELSE IF st.fuel = 0 THEN RErr(st, Exhausted)
    ELSE LET called == Log([st EXCEPT !.fuel = @ - 1,
                                      !.env = DefineParamsInPlace(@, callable.params, args)],
                           [e |-> "call", name |-> callable.name, parent |-> CallParent(st),
                            env |-> st.env])
         IN  Bind(ExecuteStmts(a, ROk(called, Continue), callable.body),
                  LAMBDA control_flow :
             IF ~control_flow.ok THEN control_flow
             ELSE IF is_break(control_flow.v) THEN ROk(control_flow.st, control_flow.v.val)
             ELSE ROk(control_flow.st, ValNil))

Interpreter_call(a, st, callable, args) ==
    IF callable.k = "Clock" THEN ROk(st, Num(st.now, 1))
    ELSE IF st.fuel = 0 THEN RErr(st, Exhausted)
    ELSE LET env == BindParams(EnvNew, callable.params, args)
             called == Log([st EXCEPT !.fuel = @ - 1],
                           [e |-> "call", name |-> callable.name, parent |-> CallParent(st),
                            env |-> st.env])
         IN  Bind(execute_block(a, called, callable.body, env, CallParent(st)),
                  LAMBDA control_flow :
             IF ~control_flow.ok THEN control_flow
             ELSE IF is_break(control_flow.v) THEN ROk(control_flow.st, control_flow.v.val)
             ELSE ROk(control_flow.st, ValNil))

\* self.env_tree.current_env_mut().define_var(name, val); Ok(Continue)
Define(st, name, val) ==
    LET after == EnvCactus_define_var(st.env, name, val) IN
    ROk(Log([st EXCEPT !.env = after],
            [e |-> "define", name |-> name, val |-> val, before |-> st.env, after |-> after]),
        Continue)

\* A placeholder that executes as a no-op.
ExecuteParseErrSkipped(st, s) == ROk(st, Continue)

\* Stmt::ParseErr(token, err) => Err(Error::Parsing { token, err })
ExecuteParseErr(st, s) ==
    RErr(st, [kind |-> "Parsing", line |-> s.token.line, err |-> s.err])

\* writeln!(ctx.out.out(), "{val}")
ExecutePrint(st, val) ==
    LET text == DisplayVal(val) \o "\n" IN
    ROk(Log([st EXCEPT !.out = Append(@, text)], [e |-> "out", text |-> text]), Continue)

execute(a, st0, sidx) ==
    LET s == stmt(a, sidx)
        st == Log(st0, [e |-> "exec", stmt |-> sidx])
    IN
    CASE s.k = "If" ->
            Bind(evaluate(a, st, s.cond), LAMBDA cond :
            IF ~cond.ok THEN cond
            ELSE IF is_truthy(cond.v) THEN execute(a, cond.st, s.then_branch)
            ELSE IF IsSome(s.else_branch) THEN execute(a, cond.st, Unwrap(s.else_branch))
            ELSE ROk(cond.st, Continue))
      [] s.k = "While" -> ExecuteWhile(a, [left |-> FALSE, r |-> ROk(st, Continue)], s.cond, s.body)
      [] s.k = "Print" ->
            Bind(evaluate(a, st, s.expr), LAMBDA val :
            IF ~val.ok THEN val ELSE ExecutePrint(val.st, val.v))
      [] s.k = "Return" ->
            IF IsSome(s.expr)
            THEN Bind(evaluate(a, st, Unwrap(s.expr)), LAMBDA val :
                 IF ~val.ok THEN val ELSE ROk(val.st, Break(val.v)))
            ELSE ROk(st, Break(ValNil))
      [] s.k = "VarDecl" ->
            Bind(IF IsSome(s.init) THEN evaluate(a, st, Unwrap(s.init)) ELSE ROk(st, ValNil),
                 LAMBDA init :
            IF ~init.ok THEN init
            ELSE Define(init.st, s.name.lexeme, init.v))
      [] s.k = "Expression" ->
            Bind(evaluate(a, st, s.expr), LAMBDA val :
            IF ~val.ok THEN val ELSE ROk(val.st, Continue))
      [] s.k = "Block" ->
            execute_block(a, st, s.stmts, EnvNew, EnvCactus_current(st.env))
      [] s.k = "Function" ->
            Define(st, s.name.lexeme, ValFunction(s.name.lexeme, s.params, s.body))
      [] s.k = "ParseErr" -> ExecuteParseErr(st, s)

\* while self.evaluate(cond)?.is_truthy() { cf = self.execute(body)?; if cf.is_break() { return } }
\* One turn of the loop: left is whether the loop is over, r its result so far.
WhileTurn(a, st, cond, body) ==
    IF st.fuel = 0 THEN [left |-> TRUE, r |-> RErr(st, Exhausted)] ELSE
    Bind(evaluate(a, st, cond), LAMBDA c :
    IF ~c.ok THEN [left |-> TRUE, r |-> c]
    ELSE IF ~is_truthy(c.v) THEN [left |-> TRUE, r |-> ROk(c.st, Continue)]
    ELSE Bind(execute(a, c.st, body), LAMBDA control_flow :
         IF ~control_flow.ok THEN [left |-> TRUE, r |-> control_flow]
         ELSE IF is_break(control_flow.v) THEN [left |-> TRUE, r |-> control_flow]
         ELSE [left |-> FALSE, r |-> [control_flow EXCEPT !.st.fuel = @ - 1]]))

ExecuteWhile(a, turn, cond, body) ==
    IF turn.left THEN turn.r
    ELSE ExecuteWhile(a, WhileTurn(a, turn.r.st, cond, body), cond, body)

\* A block that goes on with its next statement after a Break.
ExecuteStmtsPastReturn(a, control_flow, stmts) ==
    IF stmts = <<>> THEN control_flow
    ELSE IF ~control_flow.ok THEN control_flow
    ELSE ExecuteStmts(a, execute(a, control_flow.st, Head(stmts)), Tail(stmts))

\* the closure of execute_block: run stmts in order, stop at the first error or Break
\* control_flow is the result of the statement before stmts (Continue at the start)
ExecuteStmts(a, control_flow, stmts) ==
    IF stmts = <<>> THEN control_flow
    ELSE IF ~control_flow.ok THEN control_flow
    ELSE IF is_break(control_flow.v) THEN control_flow
    ELSE ExecuteStmts(a, execute(a, control_flow.st, Head(stmts)), Tail(stmts))

\* A block whose statements' error leaves through `?` before the pop.
execute_block_leaking(a, st, stmts, env, env_parent) ==
    LET entered == EnvCactus_push_at(st.env, env_parent, env)
        pushed == Log([st EXCEPT !.env = entered],
                      [e |-> "enter", parent |-> env_parent, before |-> st.env,
                       after |-> entered])
    IN  Bind(ExecuteStmts(a, ROk(pushed, Continue), stmts), LAMBDA result :
        IF ~result.ok THEN result
        ELSE LET left == EnvCactus_pop(result.st.env) IN
             [result EXCEPT !.st = Log([@ EXCEPT !.env = left],
                                       [e |-> "exit", entry |-> st.env,
                                        before |-> result.st.env, after |-> left])])

\* self.env_tree.push_at(env_parent, env); let result = (|| { .. })();
\* self.env_tree.pop(); result
execute_block(a, st, stmts, env, env_parent) ==
    LET entered == EnvCactus_push_at(st.env, env_parent, env)
        pushed == Log([st EXCEPT !.env = entered],
                      [e |-> "enter", parent |-> env_parent, before |-> st.env,
                       after |-> entered])
    IN  Bind(ExecuteStmts(a, ROk(pushed, Continue), stmts), LAMBDA result :
        LET left == EnvCactus_pop(result.st.env) IN
        [result EXCEPT !.st = Log([@ EXCEPT !.env = left],
                                  [e |-> "exit", entry |-> st.env, before |-> result.st.env,
                                   after |-> left])])

(***************************************************************************)
(* Sources.  A source is written as its sequence of lexemes, with "\n" for *)
(* a line feed; Scan gives each lexeme the kind the lexer's match gives it *)
(* and the line it starts on, and ends the stream with Eof.                *)
(***************************************************************************)
Punctuation ==
    [w \in {"(", ")", "{", "}", ",", ".", "-", "+", ";", "/", "*",
            "!", "!=", "=", "==", ">", ">=", "<", "<="} |->
        CASE w = "(" -> "LeftParen" [] w = ")" -> "RightParen"
          [] w = "{" -> "LeftBrace" [] w = "}" -> "RightBrace"
          [] w = "," -> "Comma" [] w = "." -> "Dot"
          [] w = "-" -> "Minus" [] w = "+" -> "Plus"
          [] w = ";" -> "Semicolon" [] w = "/" -> "Slash" [] w = "*" -> "Star"
          [] w = "!" -> "Bang" [] w = "!=" -> "BangEqual"
          [] w = "=" -> "Equal" [] w = "==" -> "EqualEqual"
          [] w = ">" -> "Greater" [] w = ">=" -> "GreaterEqual"
          [] w = "<" -> "Less" [] w = "<=" -> "LessEqual"]

Keywords ==
    [w \in {"and", "class", "else", "false", "for", "fun", "if", "nil", "or", "print",
            "return", "super", "this", "true", "var", "while"} |->
        CASE w = "and" -> "And" [] w = "class" -> "Class" [] w = "else" -> "Else"
          [] w = "false" -> "False" [] w = "for" -> "For" [] w = "fun" -> "Fun"
          [] w = "if" -> "If" [] w = "nil" -> "Nil" [] w = "or" -> "Or"
          [] w = "print" -> "Print" [] w = "return" -> "Return" [] w = "super" -> "Super"
          [] w = "this" -> "This" [] w = "true" -> "True" [] w = "var" -> "Var"
          [] w = "while" -> "While"]

NumberWords == ("0" :> 0) @@ ("1" :> 1) @@ ("2" :> 2) @@ ("3" :> 3)

\* string literals are written 'text' in a source
StringWords ==
    ("'G'" :> "G") @@ ("'S'" :> "S") @@ ("'C'" :> "C") @@ ("'hi'" :> "hi") @@ ("'yes'" :> "yes")
    @@ ("''" :> "") @@ ("'skipped'" :> "skipped") @@ ("'end'" :> "end")
    @@ ("'arg'" :> "arg") @@ ("'body'" :> "body") @@ ("'next'" :> "next")

ScanWord(w, line) ==
    CASE w \in DOMAIN Punctuation -> Token(Punctuation[w], w, line, LitNil)
      [] w \in DOMAIN Keywords -> Token(Keywords[w], w, line, LitNil)
      [] w \in DOMAIN NumberWords -> Token("Number", w, line, LitNumber(NumberWords[w]))
      [] w \in DOMAIN StringWords -> Token("String", w, line, LitString(StringWords[w]))
      [] w = "@" -> Token("Unknown", w, line, LitNil)
      [] OTHER -> Token("Identifier", w, line, LitNil)

\* The line of the word at position i: one more than the newlines before it.
LineAt(words, i) == 1 + Cardinality({j \in 1..(i - 1) : words[j] = "\n"})

\* One token per word that is not a newline, then Eof on the last line.
Scan(words) ==
    LET at == SelectSeq([i \in 1..Len(words) |-> i], LAMBDA i : words[i] # "\n")
    IN  [k \in 1..Len(at) |-> ScanWord(words[at[k]], LineAt(words, at[k]))]
            \o <<Token("Eof", "", LineAt(words, Len(words) + 1), LitNil)>>

\* tests/integration/main.rs, functions(): the nested-function program
SrcNested ==
    <<"\n",
      "var", "a", "=", "1", ";", "\n",
      "\n",
      "fun", "main", "(", ")", "{", "\n",
      "var", "b", "=", "2", ";", "\n",
      "\n",
      "fun", "nested", "(", ")", "{", "\n",
      "print", "a", ";", "\n",
      "print", "b", ";", "\n",
      "}", "\n",
      "\n",
      "nested", "(", ")", ";", "\n",
      "}", "\n",
      "main", "(", ")", ";", "\n">>

\* tests/integration/main.rs, while_statements()
SrcWhile ==
    <<"var", "n", "=", "3", ";",
      "while", "(", "n", ">", "0", ")", "{", "print", "n", ";", "n", "=", "n", "-", "1", ";", "}">>

\* tests/integration/main.rs, boolean_logic()
SrcLogic ==
    <<"print", "'hi'", "or", "2", ";", "\n", "print", "nil", "or", "'yes'", ";">>

\* f is declared in scope S (the global scope, or a block that binds x = 'S')
\* and called from a block that binds x = 'C'; global says whether the global
\* scope binds x = 'G'.
SrcScope(global, decl) ==
    (IF global THEN <<"var", "x", "=", "'G'", ";">> ELSE <<>>)
    \o (IF decl = "block" THEN <<"{", "var", "x", "=", "'S'", ";">> ELSE <<>>)
    \o <<"fun", "f", "(", ")", "{", "print", "x", ";", "}",
         "{", "var", "x", "=", "'C'", ";", "f", "(", ")", ";", "}">>
    \o (IF decl = "block" THEN <<"}">> ELSE <<>>)

ScopeSources == {SrcScope(g, d) : g \in BOOLEAN, d \in {"global", "block"}}

\* one statement per kind of runtime error, and three around a parse error
ErrExpectedNumber == <<"-", "'hi'", ";">>
ErrExpectedNumbers == <<"1", "<", "'hi'", ";">>
ErrExpectedNumbersOrStrings == <<"1", "+", "'hi'", ";">>
ErrUndefinedRead == <<"print", "y", ";">>
ErrUndefinedAssign == <<"y", "=", "1", ";">>
ErrBadCall == <<"1", "(", ")", ";">>
ErrWrongNumberOfArgs == <<"clock", "(", "1", ")", ";">>
ErrAfterOutput == <<"{", "print", "2", ";", "print", "y", ";", "}">>
ErrParse == <<"print", ";">>
ErrParseInTakenBranch == <<"if", "(", "true", ")", "{", "print", "2", ";", "print", ";", "print", "2", ";", "}">>
ErrParseInUntakenBranch == <<"if", "(", "false", ")", "{", "print", ";", "}">>

RuntimeErrStmts ==
    {ErrExpectedNumber, ErrExpectedNumbers, ErrExpectedNumbersOrStrings, ErrUndefinedRead,
     ErrUndefinedAssign, ErrBadCall, ErrWrongNumberOfArgs, ErrAfterOutput}
ParseErrStmts == {ErrParse, ErrParseInTakenBranch, ErrParseInUntakenBranch}

\* print 1; <stmt> print 3;   on lines 1, 2 and 3
SrcErr(stmtWords) == <<"print", "1", ";", "\n">> \o stmtWords \o <<"\n", "print", "3", ";">>

ErrSources == {SrcErr(e) : e \in RuntimeErrStmts \cup ParseErrStmts}

\* var x = 1; fun f() { print 'hi'; return 3; }
\* print <left> <op> <right>;
\* print x;
ShortLefts == {"false", "nil", "true", "0", "''", "'hi'"}
ShortOps == {"and", "or"}
ShortRights == {<<"(", "x", "=", "2", ")">>, <<"y">>, <<"f", "(", ")">>}

SrcShort(left, operator, right) ==
    <<"var", "x", "=", "1", ";",
      "fun", "f", "(", ")", "{", "print", "'hi'", ";", "return", "3", ";", "}", "\n",
      "print", left, operator>> \o right \o <<";", "\n", "print", "x", ";">>

ShortSources == {SrcShort(l, o, r) : l \in ShortLefts, o \in ShortOps, r \in ShortRights}

\* assignments to names defined zero, one and two frames away, and to a parameter
SrcAssignNested ==
    <<"var", "x", "=", "1", ";",
      "{", "var", "y", "=", "2", ";",
           "{", "x", "=", "3", ";", "print", "y", "=", "x", "=", "0", ";", "print", "x", ";", "}",
           "print", "y", ";", "}",
      "print", "x", ";">>
SrcAssignShadow ==
    <<"var", "x", "=", "1", ";",
      "{", "var", "x", "=", "2", ";",
           "{", "x", "=", "3", ";", "print", "x", ";", "}",
           "print", "x", ";", "}",
      "print", "x", ";">>
SrcAssignParam ==
    <<"var", "x", "=", "1", ";",
      "fun", "f", "(", "x", ")", "{", "x", "=", "2", ";", "return", "x", ";", "}",
      "print", "f", "(", "0", ")", ";", "print", "x", ";">>
SrcAssignGlobal ==
    <<"var", "x", "=", "1", ";",
      "fun", "f", "(", ")", "{", "{", "x", "=", "2", ";", "}", "}",
      "f", "(", ")", ";", "print", "x", ";">>
\* assignments to names nothing defines
SrcAssignUndefinedInBlock ==
    <<"var", "a", "=", "1", ";", "\n",
      "{", "var", "b", "=", "2", ";", "{", "z", "=", "a", ";", "}", "}", "\n",
      "print", "a", ";">>
SrcAssignUndefinedInCall ==
    <<"fun", "f", "(", "p", ")", "{", "var", "b", "=", "2", ";", "c", "=", "p", ";", "}", "\n",
      "{", "var", "c", "=", "3", ";", "f", "(", "1", ")", ";", "}">>
AssignSources ==
    {SrcAssignNested, SrcAssignShadow, SrcAssignParam, SrcAssignGlobal,
     SrcAssignUndefinedInBlock, SrcAssignUndefinedInCall}

\* declarations inside blocks and function bodies
SrcShadow ==
    <<"var", "a", "=", "'G'", ";",
      "{", "var", "a", "=", "'S'", ";", "print", "a", ";", "}",
      "print", "a", ";">>
SrcShadowNested ==
    <<"var", "a", "=", "'G'", ";",
      "{", "var", "a", "=", "'S'", ";",
           "{", "var", "a", "=", "'C'", ";", "print", "a", ";", "}",
           "print", "a", ";", "}",
      "print", "a", ";">>
SrcBlockLocal ==
    <<"{", "var", "z", "=", "1", ";", "print", "z", ";", "}", "\n", "print", "z", ";">>
SrcBodyLocal ==
    <<"var", "a", "=", "'G'", ";",
      "fun", "f", "(", ")", "{", "var", "a", "=", "'S'", ";", "print", "a", ";", "}",
      "f", "(", ")", ";", "print", "a", ";">>
DeclSources == {SrcShadow, SrcShadowNested, SrcBlockLocal, SrcBodyLocal}

\* tests/integration/main.rs, for_statements(), with the bound 100 lowered to 3
SrcForTest ==
    <<"var", "a", "=", "0", ";", "var", "temp", ";", "\n",
      "for", "(", "var", "b", "=", "1", ";", "a", "<", "3", ";", "b", "=", "temp", "+", "b", ")",
      "{", "print", "a", ";", "temp", "=", "a", ";", "a", "=", "b", ";", "}">>

\* var i = 0; [fun g() {] for (<init> <cond>; <inc>) <body> [return 3; } print g();] print i;
\* with each clause present or absent, bodies that print, assign the loop
\* variable, raise a runtime error and return
ForInits == {<<";">>, <<"var", "i", "=", "0", ";">>, <<"i", "=", "1", ";">>}
ForConds == {<<>>, <<"i", "<", "2">>}
ForIncs == {<<>>, <<"i", "=", "i", "+", "1">>}
ForBodies ==
    {<<"print", "i", ";">>,
     <<"{", "print", "i", ";", "i", "=", "i", "+", "1", ";", "}">>,
     <<"{", "if", "(", "i", "==", "1", ")", "print", "-", "nil", ";", "print", "i", ";", "}">>,
     <<"{", "if", "(", "i", "==", "1", ")", "return", "i", ";", "print", "i", ";", "}">>}
ForContexts == {"top", "fun"}

ForWrap(ctx, loop) ==
    <<"var", "i", "=", "0", ";">>
    \o (IF ctx = "fun"
        THEN <<"fun", "g", "(", ")", "{">> \o loop
             \o <<"return", "3", ";", "}", "print", "g", "(", ")", ";">>
        ELSE loop)
    \o <<"print", "i", ";">>

SrcFor(ctx, init, cond, inc, body) ==
    ForWrap(ctx, <<"for", "(">> \o init \o cond \o <<";">> \o inc \o <<")">> \o body)

\* { init while (cond) { body inc; } } written out by hand
SrcForRewrite(ctx, init, cond, inc, body) ==
    ForWrap(ctx,
            <<"{">> \o (IF init = <<";">> THEN <<>> ELSE init)
            \o <<"while", "(">> \o (IF cond = <<>> THEN <<"true">> ELSE cond) \o <<")">>
            \o (IF inc = <<>> THEN body ELSE <<"{">> \o body \o inc \o <<";", "}">>)
            \o <<"}">>)

ForSources ==
    {SrcForTest} \cup
    {SrcFor(ctx, init, cond, inc, body) :
        ctx \in ForContexts, init \in ForInits, cond \in ForConds, inc \in ForIncs,
        body \in ForBodies}

\* tests/integration/main.rs, math_expressions(), and a print of each kind of value
SrcMathPrecedence == <<"print", "2", "+", "2", "*", "2", ";">>
SrcMathGrouping == <<"print", "(", "2", "+", "2", ")", "*", "2", ";">>
SrcPrintValues ==
    <<"print", "nil", ";", "print", "true", ";", "print", "'hi'", ";", "print", "clock", ";">>
PrintSources == {SrcMathPrecedence, SrcMathGrouping, SrcPrintValues}

\* functions that return from inside a while loop, an if branch and nested
\* blocks, that return nothing, and that end without a return
SrcReturnInLoop ==
    <<"var", "i", "=", "0", ";", "\n",
      "fun", "f", "(", ")", "{", "\n",
      "while", "(", "true", ")", "{", "\n",
      "if", "(", "i", "==", "1", ")", "return", "i", ";", "\n",
      "print", "i", ";", "i", "=", "i", "+", "1", ";", "}", "\n",
      "print", "'end'", ";", "}", "\n",
      "print", "f", "(", ")", ";">>
SrcReturnInBlocks ==
    <<"fun", "f", "(", ")", "{", "\n",
      "if", "(", "true", ")", "{", "{", "return", ";", "}", "print", "'skipped'", ";", "}", "\n",
      "print", "'end'", ";", "}", "\n",
      "print", "f", "(", ")", ";">>
SrcReturnBare ==
    <<"fun", "f", "(", ")", "{", "print", "1", ";", "return", ";", "print", "2", ";", "}", "\n",
      "print", "f", "(", ")", ";">>
SrcNoReturn ==
    <<"fun", "f", "(", ")", "{", "print", "1", ";", "}", "\n", "print", "f", "(", ")", ";">>
SrcReturnAtRoot == <<"return", "1", ";", "\n", "print", "2", ";">>
SrcReturnInRootBlock ==
    <<"{", "if", "(", "true", ")", "return", ";", "print", "1", ";", "}", "\n", "print", "2", ";">>
ReturnSources ==
    {SrcReturnInLoop, SrcReturnInBlocks, SrcReturnBare, SrcNoReturn, SrcReturnAtRoot, SrcReturnInRootBlock}

\* fun g() { print 'arg'; return 1; } fun f(a) { print 'body'; }
\* <callee>(<args>);   print 'next';
CallCallees == {<<"f">>, <<"clock">>, <<"1">>, <<"'hi'">>, <<"g", "(", ")">>, <<"h">>}
CallArgs == {<<>>, <<"g", "(", ")">>, <<"g", "(", ")", ",", "g", "(", ")">>, <<"h">>}
SrcCall(callee, args) ==
    <<"fun", "g", "(", ")", "{", "print", "'arg'", ";", "return", "1", ";", "}", "\n",
      "fun", "f", "(", "a", ")", "{", "print", "'body'", ";", "}", "\n">>
    \o callee \o <<"(">> \o args \o <<")", ";", "\n", "print", "'next'", ";">>
CallSources == {SrcCall(callee, args) : callee \in CallCallees, args \in CallArgs}

\* a value of each kind as the condition of an if and of a while and as the
\* operand of !, and and or
TruthWords == {"false", "nil", "true", "0", "1", "''", "'hi'", "clock"}
SrcTruth(w) ==
    <<"if", "(", w, ")", "print", "1", ";", "else", "print", "2", ";", "\n",
      "print", "!", w, ";", "\n",
      "print", w, "and", "3", ";", "\n",
      "print", w, "or", "3", ";", "\n",
      "var", "n", "=", w, ";", "\n",
      "while", "(", "n", ")", "{", "print", "n", ";", "n", "=", "nil", ";", "}">>
TruthSources == {SrcTruth(w) : w \in TruthWords}

\* tests/integration/main.rs, functions(): the recursive fibonacci, and a
\* function that keeps a parameter and a local across a call of itself
SrcFibonacci ==
    <<"fun", "fibonacci", "(", "n", ")", "{", "\n",
      "if", "(", "n", "<=", "1", ")", "return", "n", ";", "\n",
      "return", "fibonacci", "(", "n", "-", "2", ")", "+", "fibonacci", "(", "n", "-", "1", ")", ";",
      "}", "\n",
      "print", "fibonacci", "(", "3", ")", ";">>
SrcRecursionLocals ==
    <<"fun", "f", "(", "n", ")", "{", "var", "l", "=", "n", ";", "\n",
      "if", "(", "n", "<", "2", ")", "f", "(", "n", "+", "1", ")", ";", "\n",
      "l", "=", "l", "+", "n", ";", "print", "n", ";", "print", "l", ";", "}", "\n",
      "f", "(", "1", ")", ";">>
RecursionSources == {SrcFibonacci, SrcRecursionLocals}

Sources ==
    {SrcNested, SrcWhile, SrcLogic} \cup ScopeSources \cup ErrSources \cup ShortSources
    \cup AssignSources \cup DeclSources \cup ForSources
    \cup PrintSources \cup ReturnSources \cup CallSources \cup TruthSources
    \cup RecursionSources

(***************************************************************************)
(* Spec: the test harness's interpret(code) on one Interpreter: parse the  *)
(* source, then Interpreter::interpret, one root statement per step.       *)
(***************************************************************************)
InterpIdle ==
    /\ src = <<>>
    /\ ast = AstNew
    /\ env_tree = InterpreterNew
    /\ out = <<>>
    /\ err = <<>>
    /\ diag = <<>>
    /\ pc = 0
    /\ phase = "idle"
    /\ trace = <<>>
    /\ runs = 0
    /\ lexer = [inner |-> [source |-> <<>>, start |-> 0, end |-> 0, line |-> 1,
                           panicked |-> FALSE],
                peeked |-> <<>>]
    /\ calls = <<>>

MaxFuel == 12
ClockVals == {1000}

\* Tree::new() and Chunk::new()
TreeNew == [nodes |-> SlabNew]
ChunkNew == [code |-> <<>>, constants |-> <<>>, lines |-> <<>>]

UnitsNew ==
    /\ arglist = [toks |-> <<>>, ps |-> [pos |-> 1, ast |-> AstNew, diag |-> <<>>],
                  args |-> <<>>, at |-> "idle", error |-> None]
    /\ tree = TreeNew
    /\ chunk = ChunkNew
    /\ added = <<>>
    /\ parser = [toks |-> <<>>, ps |-> [pos |-> 1, ast |-> AstNew, diag |-> <<>>],
                 at |-> "idle", from |-> 1, failed |-> None]

Init ==
    /\ cactus = CactusNew
    /\ popped = None
    /\ op = "new"
    /\ InterpIdle
    /\ UnitsNew

\* let ast = unlox_parse::parse(lexer, &mut err)
Parse ==
    /\ phase = "idle"
    /\ \E words \in Sources :
        \E toks \in {Scan(words)} :
            \E parsed \in {parse(toks)} :
                /\ src' = toks
                /\ ast' = parsed.ast
                /\ diag' = parsed.diag
    /\ phase' = "running"
    /\ pc' = 0
    /\ UNCHANGED <<env_tree, out, err, trace, runs, cactusVars, lexVars, unitVars>>

\* if let Err(error) = self.execute(ctx, ast, *stmt) { writeln!(err, "{error}"); return; }
\* The loop without its return: an error is printed and the next statement runs.
AfterStatementNoReturn(result, i) ==
    IF ~result.ok /\ result.v.kind = "Exhausted" THEN [phase |-> "diverged", pc |-> i]
    ELSE [phase |-> "running", pc |-> i + 1]

AfterStatement(result, i) ==
    IF result.ok THEN [phase |-> "running", pc |-> i + 1]
    ELSE IF result.v.kind = "Exhausted" THEN [phase |-> "diverged", pc |-> i]
    ELSE [phase |-> "halted", pc |-> i]

InterpretStep ==
    /\ phase = "running"
    /\ pc < Len(roots(ast))
    /\ \E now \in ClockVals :
        \E result \in {execute(ast, [env |-> env_tree, out |-> out, trace |-> trace,
                                     now |-> now, fuel |-> MaxFuel], roots(ast)[pc + 1])} :
            /\ env_tree' = result.st.env
            /\ out' = result.st.out
            /\ trace' = result.st.trace
            /\ phase' = AfterStatement(result, pc).phase
            /\ pc' = AfterStatement(result, pc).pc
            /\ err' = IF result.ok \/ result.v.kind = "Exhausted" THEN err
                      ELSE Append(err, ErrorText(result.v) \o "\n")
    /\ UNCHANGED <<src, ast, diag, runs, cactusVars, lexVars, unitVars>>

\* the for loop over ast.roots() ends
InterpretReturn ==
    /\ phase = "running"
    /\ pc = Len(roots(ast))
    /\ phase' = "done"
    /\ UNCHANGED <<src, ast, diag, env_tree, out, err, trace, pc, runs, cactusVars, lexVars, unitVars>>

Next == Parse \/ InterpretStep \/ InterpretReturn

Spec == Init /\ [][Next]_vars

Finished == phase \in {"done", "halted"}

Text(v) == DisplayVal(v) \o "\n"

C2_NestedCannotReadLocal ==
    (Finished /\ src = Scan(SrcNested)) =>
        /\ phase = "halted"
        /\ err = <<"[Line 9]: Undefined variable b.\n">>

C2_Witness ==
    /\ phase = "halted"
    /\ src = Scan(SrcNested)
    /\ Len(err) = 1
    /\ \E i \in DOMAIN trace : trace[i].e = "undefined" /\ trace[i].name = "b"

IsPrefix(s, t) == Len(s) <= Len(t) /\ SubSeq(t, 1, Len(s)) = s

\* what execute returns for the root statement the loop of interpret is at
RootResult(now) ==
    execute(ast, [env |-> env_tree, out |-> out, trace |-> trace, now |-> now, fuel |-> MaxFuel],
            roots(ast)[pc + 1])

(***************************************************************************)
(* C3: interpret runs the root statements in source order; as soon as one  *)
(* raises a runtime error, exactly one line is written to the error sink,  *)
(* no further root statement runs, nothing more is written to the output   *)
(* sink, and the output written before stays as it was.                    *)
(***************************************************************************)
C3_HaltOnFirstError ==
    [][/\ Len(err') <= 1
       /\ IsPrefix(out, out')
       /\ pc' \in {pc, pc + 1}
       /\ err # <<>> => (out' = out /\ err' = err /\ pc' = pc /\ trace' = trace)
       /\ (phase = "running" /\ pc < Len(roots(ast))) =>
             \A now \in ClockVals :
                 LET r == RootResult(now) IN
                 IF r.ok THEN err' = err /\ pc' = pc + 1
                 ELSE r.v.kind # "Exhausted" =>
                         /\ err' = Append(err, ErrorText(r.v) \o "\n")
                         /\ phase' = "halted"
                         /\ pc' = pc
      ]_vars

C3_Witness ==
    /\ phase = "halted"
    /\ src = Scan(SrcErr(ErrAfterOutput))
    /\ out = <<Text(LitNumber(1)), Text(LitNumber(2))>>
    /\ err = <<"[Line 2]: Undefined variable y.\n">>
    /\ pc = 1

(***************************************************************************)
(* C4: parsing continues past a parse error; the root statements before    *)
(* the first ParseErr placeholder that execution reaches run normally;     *)
(* executing the placeholder raises the Parsing error and nothing runs     *)
(* after it; a placeholder that execution never reaches does not halt the  *)
(* program.                                                                *)
(***************************************************************************)
ParseErrNodes(a) == {i \in DOMAIN a.stmts : a.stmts[i].k = "ParseErr"}

ParsingText(line, message) ==
    "[Line " \o ToString(line) \o "]: The program terminated due to a syntax error: "
    \o message \o "\n"

C4_ParseErrHaltsWhenReached ==
    /\ (diag # <<>>) <=> (ParseErrNodes(ast) # {})
    /\ \A e \in ParseErrStmts :
          src = Scan(SrcErr(e)) =>
              /\ Len(roots(ast)) = 3
              /\ stmt(ast, roots(ast)[3]).k = "Print"
              /\ diag = <<"Expected expression.">>
    /\ \A i \in DOMAIN trace :
          (trace[i].e = "exec" /\ stmt(ast, trace[i].stmt).k = "ParseErr") =>
              /\ phase = "halted"
              /\ err = <<ParsingText(stmt(ast, trace[i].stmt).token.line,
                                     stmt(ast, trace[i].stmt).err)>>
              /\ \A j \in DOMAIN trace : j > i => trace[j].e = "exit"
    /\ Finished =>
          /\ src = Scan(SrcErr(ErrParse)) =>
                /\ phase = "halted"
                /\ out = <<Text(LitNumber(1))>>
                /\ err = <<ParsingText(2, "Expected expression.")>>
          /\ src = Scan(SrcErr(ErrParseInTakenBranch)) =>
                /\ phase = "halted"
                /\ out = <<Text(LitNumber(1)), Text(LitNumber(2))>>
                /\ err = <<ParsingText(2, "Expected expression.")>>
          /\ src = Scan(SrcErr(ErrParseInUntakenBranch)) =>
                /\ phase = "done"
                /\ out = <<Text(LitNumber(1)), Text(LitNumber(3))>>
                /\ err = <<>>

C4_Witness ==
    /\ phase = "halted"
    /\ src = Scan(SrcErr(ErrParseInTakenBranch))
    /\ out = <<Text(LitNumber(1)), Text(LitNumber(2))>>
    /\ \E i \in DOMAIN trace : trace[i].e = "exec" /\ stmt(ast, trace[i].stmt).k = "ParseErr"

(***************************************************************************)
(* What the claims about frames speak of, read off an environment tree     *)
(* without the interpreter's own lookups.                                  *)
(***************************************************************************)
LiveFrames(c) == {i \in 0 .. (Len(c.nodes.entries) - 1) : c.nodes.entries[i + 1].occ}
FrameData(c, i) == c.nodes.entries[i + 1].node.data
FrameParent(c, i) == c.nodes.entries[i + 1].node.parent
NamesIn(c) == UNION {DOMAIN FrameData(c, i) : i \in LiveFrames(c)}

\* the frames from idx to the root, nearest first
RECURSIVE Chain(_, _)
Chain(c, idx) ==
    IF FrameParent(c, idx) = None THEN <<idx>>
    ELSE <<idx>> \o Chain(c, Unwrap(FrameParent(c, idx)))

\* the nearest frame, on the chain from the active frame, that defines name
Nearest(c, name) ==
    LET ch == Chain(c, Last(c.stack))
        ks == {k \in DOMAIN ch : name \in DOMAIN FrameData(c, ch[k])}
    IN  IF ks = {} THEN None
        ELSE Some(ch[CHOOSE k \in ks : \A k2 \in ks : k <= k2])

SameShape(c1, c2) ==
    /\ c1.stack = c2.stack
    /\ c1.nodes.next = c2.nodes.next
    /\ Len(c1.nodes.entries) = Len(c2.nodes.entries)
    /\ LiveFrames(c1) = LiveFrames(c2)
    /\ \A i \in LiveFrames(c1) : FrameParent(c1, i) = FrameParent(c2, i)

Events(kind) == {i \in DOMAIN trace : trace[i].e = kind}

(***************************************************************************)
(* C5: in `a and b` with a falsey, and in `a or b` with a truthy, b is     *)
(* never evaluated: none of its assignments, calls, output or errors       *)
(* occur, and the expression's value is a's own value.                     *)
(***************************************************************************)
ShortLeftValue(w) ==
    CASE w = "false" -> LitBool(FALSE)
      [] w = "nil" -> LitNil
      [] w = "true" -> LitBool(TRUE)
      [] w = "0" -> LitNumber(0)
      [] w = "''" -> LitString("")
      [] w = "'hi'" -> LitString("hi")

Settles(operator, w) == IF operator = "and" THEN w \in {"false", "nil"} ELSE w \notin {"false", "nil"}

LogicalNodes(a) == {i \in DOMAIN a.exprs : a.exprs[i].k = "Logical"}

C5_ShortCircuit ==
    /\ \A l \in ShortLefts, o \in ShortOps, r \in ShortRights :
          (src = Scan(SrcShort(l, o, r)) /\ Settles(o, l)) =>
              /\ \A n \in LogicalNodes(ast), i \in Events("eval") :
                    trace[i].expr # ast.exprs[n].right
              /\ Events("write") = {} /\ Events("call") = {} /\ Events("undefined") = {}
              /\ Len(out) <= 2
              /\ Len(out) >= 1 => out[1] = Text(ShortLeftValue(l))
              /\ Finished => /\ phase = "done"
                             /\ out = <<Text(ShortLeftValue(l)), Text(LitNumber(1))>>
                             /\ err = <<>>
    /\ (Finished /\ src = Scan(SrcLogic)) =>
          out = <<Text(LitString("hi")), Text(LitString("yes"))>>

C5_Witness ==
    /\ phase = "done"
    /\ src = Scan(SrcShort("nil", "and", <<"(", "x", "=", "2", ")">>))
    /\ out = <<Text(LitNil), Text(LitNumber(1))>>
    /\ LogicalNodes(ast) # {}

(***************************************************************************)
(* C6: `x = v` with x defined overwrites x in the nearest frame, on the    *)
(* chain from the active frame, that defines x; no other name and no other *)
(* frame changes, and the assignment evaluates to v.                       *)
(***************************************************************************)
C6_AssignOverwritesNearest ==
    /\ \A i \in Events("write") :
          LET w == trace[i]
              f == Nearest(w.before, w.name)
          IN  /\ f # None
              /\ w.ret = w.val
              /\ SameShape(w.before, w.after)
              /\ \A j \in LiveFrames(w.before) :
                    /\ DOMAIN FrameData(w.after, j) = DOMAIN FrameData(w.before, j)
                    /\ \A n \in DOMAIN FrameData(w.before, j) :
                          FrameData(w.after, j)[n] =
                              IF j = Unwrap(f) /\ n = w.name THEN w.val
                              ELSE FrameData(w.before, j)[n]
    /\ Finished =>
          /\ src = Scan(SrcAssignNested) =>
                out = <<Text(LitNumber(0)), Text(LitNumber(0)), Text(LitNumber(0)), Text(LitNumber(0))>>
          /\ src = Scan(SrcAssignShadow) =>
                out = <<Text(LitNumber(3)), Text(LitNumber(3)), Text(LitNumber(1))>>
          /\ src = Scan(SrcAssignParam) => out = <<Text(LitNumber(2)), Text(LitNumber(1))>>
          /\ src = Scan(SrcAssignGlobal) => out = <<Text(LitNumber(2))>>

\* an assignment whose target is defined both in a middle frame and in the global one
C6_Witness ==
    /\ phase = "done"
    /\ \E i \in Events("write") :
          LET w == trace[i]
              f == Unwrap(Nearest(w.before, w.name))
          IN  /\ f # Last(w.before.stack)
              /\ f # w.before.stack[1]
              /\ w.name \in DOMAIN FrameData(w.before, w.before.stack[1])

(***************************************************************************)
(* C7: assigning to a name that no frame on the chain from the active      *)
(* frame to the root defines raises UndefinedVariable, creates no binding  *)
(* and changes no frame; a later read of the name still raises             *)
(* UndefinedVariable.                                                      *)
(***************************************************************************)
ReadOf(name) ==
    evaluate([stmts |-> <<>>, roots |-> <<>>,
              exprs |-> <<[k |-> "Variable", var |-> Token("Identifier", name, 1, LitNil)]>>],
             [env |-> env_tree, out |-> <<>>, trace |-> <<>>, now |-> 0, fuel |-> MaxFuel], 0)

C7_AssignUndefinedRaises ==
    /\ \A i \in Events("undefined") :
          trace[i].how = "assign" =>
              /\ Nearest(trace[i].before, trace[i].name) = None
              /\ trace[i].after = trace[i].before
              /\ phase = "halted"
              /\ \E line \in 1 .. 3 :
                    err = <<"[Line " \o ToString(line) \o "]: Undefined variable "
                            \o trace[i].name \o ".\n">>
              /\ trace[i].name \notin NamesIn(env_tree)
              /\ ~ReadOf(trace[i].name).ok
              /\ ReadOf(trace[i].name).v.kind = "UndefinedVariable"
    /\ Finished =>
          /\ src = Scan(SrcErr(ErrUndefinedAssign)) =>
                /\ phase = "halted"
                /\ out = <<Text(LitNumber(1))>>
                /\ err = <<"[Line 2]: Undefined variable y.\n">>
          /\ src = Scan(SrcAssignUndefinedInBlock) =>
                /\ phase = "halted"
                /\ err = <<"[Line 2]: Undefined variable z.\n">>
                /\ DOMAIN FrameData(env_tree, 0) = {"clock", "a"}
          /\ src = Scan(SrcAssignUndefinedInCall) =>
                /\ phase = "halted"
                /\ err = <<"[Line 1]: Undefined variable c.\n">>
                /\ DOMAIN FrameData(env_tree, 0) = {"clock", "f"}

\* the name is defined in a live frame that is not on the chain
C7_Witness ==
    /\ phase = "halted"
    /\ \E i \in Events("undefined") :
          /\ trace[i].how = "assign"
          /\ Len(trace[i].before.stack) > 1
          /\ trace[i].name \in NamesIn(trace[i].before)

(***************************************************************************)
(* C8: a variable declaration executed inside a block binds the name only  *)
(* in the block's own frame: enclosing frames keep their bindings, a read  *)
(* inside the block sees the new binding, and after the block exits a read *)
(* of the name sees the binding it shadowed, or raises UndefinedVariable   *)
(* when there was none.                                                    *)
(***************************************************************************)
C8_BlockDeclarationIsLocal ==
    /\ \A i \in Events("define") :
          LET d == trace[i]
              cur == Last(d.before.stack)
          IN  Len(d.before.stack) > 1 =>
                /\ SameShape(d.before, d.after)
                /\ \A j \in LiveFrames(d.before) \ {cur} :
                      FrameData(d.after, j) = FrameData(d.before, j)
                /\ DOMAIN FrameData(d.after, cur) = DOMAIN FrameData(d.before, cur) \cup {d.name}
                /\ \A n \in DOMAIN FrameData(d.before, cur) \ {d.name} :
                      FrameData(d.after, cur)[n] = FrameData(d.before, cur)[n]
                /\ FrameData(d.after, cur)[d.name] = d.val
                /\ Nearest(d.after, d.name) = Some(cur)
    /\ \A i \in Events("read") :
          LET f == Nearest(trace[i].env, trace[i].name) IN
          /\ f # None
          /\ trace[i].val = FrameData(trace[i].env, Unwrap(f))[trace[i].name]
    /\ \A i \in Events("exit") :
          LET x == trace[i] IN
          /\ x.after.stack = x.entry.stack
          /\ LiveFrames(x.after) = LiveFrames(x.entry)
          /\ \A j \in LiveFrames(x.entry) :
                DOMAIN FrameData(x.after, j) = DOMAIN FrameData(x.entry, j)
          /\ \A n \in NamesIn(x.before) : Nearest(x.after, n) = Nearest(x.entry, n)
    /\ Finished =>
          /\ src = Scan(SrcShadow) => out = <<Text(LitString("S")), Text(LitString("G"))>>
          /\ src = Scan(SrcShadowNested) =>
                out = <<Text(LitString("C")), Text(LitString("S")), Text(LitString("G"))>>
          /\ src = Scan(SrcBodyLocal) => out = <<Text(LitString("S")), Text(LitString("G"))>>
          /\ src = Scan(SrcBlockLocal) =>
                /\ phase = "halted"
                /\ out = <<Text(LitNumber(1))>>
                /\ err = <<"[Line 2]: Undefined variable z.\n">>

\* a declaration in a block frame of a name the global frame also binds
C8_Witness ==
    /\ phase = "done"
    /\ out = <<Text(LitString("C")), Text(LitString("S")), Text(LitString("G"))>>
    /\ \E i \in Events("define") :
          /\ Len(trace[i].before.stack) > 2
          /\ trace[i].name \in DOMAIN FrameData(trace[i].before, trace[i].before.stack[1])

(***************************************************************************)
(* C9: executing `for (init; cond; inc) body` produces the same sequence   *)
(* of output writes, variable reads and writes, and the same final outcome *)
(* as executing Block{ init, While{ cond, Block{ body, Expression(inc) } } *)
(* }, with an absent cond read as true and an absent inc leaving the body  *)
(* alone, for every combination of present and absent clauses.             *)
(***************************************************************************)
\* Interpreter::interpret on a fresh interpreter, run to its end
RECURSIVE InterpretRoots(_, _, _)
InterpretRoots(a, st, i) ==
    IF i >= Len(roots(a)) THEN [st |-> st, err |-> <<>>, phase |-> "done"]
    ELSE LET r == execute(a, [st EXCEPT !.fuel = MaxFuel], roots(a)[i + 1]) IN
         IF r.ok THEN InterpretRoots(a, r.st, i + 1)
         ELSE IF r.v.kind = "Exhausted" THEN [st |-> r.st, err |-> <<>>, phase |-> "diverged"]
         ELSE [st |-> r.st, err |-> <<ErrorText(r.v) \o "\n">>, phase |-> "halted"]

Interpret(toks, now) ==
    LET parsed == parse(toks)
        run == InterpretRoots(parsed.ast,
                              [env |-> InterpreterNew, out |-> <<>>, trace |-> <<>>,
                               now |-> now, fuel |-> MaxFuel], 0)
    IN  [diag |-> parsed.diag, out |-> run.st.out, err |-> run.err, phase |-> run.phase,
         trace |-> run.st.trace]

\* a value without the positions of its body in the syntax tree
ObsVal(v) == IF v.t = "Callable" /\ v.c.k = "Function" THEN [t |-> "Callable", name |-> v.c.name] ELSE v

ObsKinds == {"out", "read", "write", "define", "undefined", "call"}

ObsEvent(ev) ==
    CASE ev.e = "out" -> [e |-> "out", text |-> ev.text]
      [] ev.e \in {"read", "write", "define"} -> [e |-> ev.e, name |-> ev.name, val |-> ObsVal(ev.val)]
      [] ev.e = "undefined" -> [e |-> "undefined", how |-> ev.how, name |-> ev.name]
      [] ev.e = "call" -> [e |-> "call", name |-> ev.name]

Observable(tr) ==
    LET kept == SelectSeq(tr, LAMBDA ev : ev.e \in ObsKinds)
    IN  [k \in 1 .. Len(kept) |-> ObsEvent(kept[k])]

C9_ForDesugaring ==
    /\ \A ctx \in ForContexts, init \in ForInits, cond \in ForConds, inc \in ForIncs,
          body \in ForBodies :
          src = Scan(SrcFor(ctx, init, cond, inc, body)) =>
              \A now \in ClockVals :
                  LET rewrite == Interpret(Scan(SrcForRewrite(ctx, init, cond, inc, body)), now) IN
                  /\ diag = <<>> /\ rewrite.diag = <<>>
                  /\ IsPrefix(out, rewrite.out)
                  /\ IsPrefix(Observable(trace), Observable(rewrite.trace))
                  /\ Finished =>
                        /\ phase = rewrite.phase
                        /\ out = rewrite.out
                        /\ err = rewrite.err
                        /\ Observable(trace) = Observable(rewrite.trace)
    /\ Finished =>
          /\ src = Scan(SrcForTest) =>
                /\ phase = "done"
                /\ out = <<Text(LitNumber(0)), Text(LitNumber(1)), Text(LitNumber(1)),
                           Text(LitNumber(2))>>
          /\ src = Scan(SrcFor("top", <<"var", "i", "=", "0", ";">>, <<"i", "<", "2">>,
                               <<"i", "=", "i", "+", "1">>, <<"print", "i", ";">>)) =>
                /\ phase = "done"
                /\ out = <<Text(LitNumber(0)), Text(LitNumber(1)), Text(LitNumber(0))>>

\* a loop with all three clauses has run twice and ended on its condition
C9_Witness ==
    /\ phase = "done"
    /\ src = Scan(SrcFor("top", <<"var", "i", "=", "0", ";">>, <<"i", "<", "2">>,
                         <<"i", "=", "i", "+", "1">>, <<"print", "i", ";">>))
    /\ out = <<Text(LitNumber(0)), Text(LitNumber(1)), Text(LitNumber(0))>>
    /\ Cardinality(Events("write")) = 2

(***************************************************************************)
(* SpecCactus: any sequence of push, push_at and pop on one Cactus.        *)
(***************************************************************************)
MaxSlots == 4
DataVals == {"a", "b"}

InitCactus ==
    /\ cactus = CactusNew
    /\ popped = None
    /\ op = "new"
    /\ InterpIdle
    /\ UnitsNew

CactusPush ==
    /\ Len(cactus.stack) < MaxSlots
    /\ \E v \in DataVals :
        /\ cactus' = push(cactus, v).c
        /\ op' = "push"
    /\ UNCHANGED <<popped, interpVars, lexVars, unitVars>>

CactusPushAt ==
    /\ Len(cactus.stack) < MaxSlots
    /\ \E v \in DataVals, p \in 0 .. (Len(cactus.nodes.entries) - 1) :
        /\ contains(cactus, p)
        /\ cactus' = push_at(cactus, p, v).c
        /\ op' = "push_at"
    /\ UNCHANGED <<popped, interpVars, lexVars, unitVars>>

CactusPop ==
    /\ cactus' = pop(cactus).c
    /\ popped' = pop(cactus).ret
    /\ op' = "pop"
    /\ UNCHANGED <<interpVars, lexVars, unitVars>>

NextCactus == CactusPush \/ CactusPushAt \/ CactusPop

SpecCactus == InitCactus /\ [][NextCactus]_vars

(***************************************************************************)
(* C10: root frame permanence.  When the active stack holds only the root, *)
(* pop returns absent and leaves the node store and the active stack       *)
(* unchanged.                                                              *)
(***************************************************************************)
C10_PopRefusesRoot ==
    [][(CactusPop /\ Len(cactus.stack) = 1) => (cactus' = cactus /\ popped' = None)]_vars

\* section C11
(***************************************************************************)
(* C11: frames are never physically removed.  Every index that resolves    *)
(* before a push, push_at or pop still resolves after it, to the same data *)
(* and the same parent.                                                    *)
(***************************************************************************)
C11_FramesNeverRemoved ==
    [][\A i \in 0 .. (Len(cactus.nodes.entries) - 1) :
          contains(cactus, i) =>
              /\ contains(cactus', i)
              /\ node_data(cactus', i) = node_data(cactus, i)
              /\ parent(cactus', i) = parent(cactus, i)]_vars

\* section C12
(***************************************************************************)
(* SpecRepl: successive interpret calls on one Interpreter, as the wasm    *)
(* wrapper makes them: each call lexes and parses its own source and       *)
(* writes to its own sink, and self.interpreter is kept.                   *)
(***************************************************************************)
MaxRuns == 2

ReplSources ==
    {SrcNested, SrcWhile, SrcShadowNested, SrcBodyLocal, SrcAssignUndefinedInCall,
     SrcErr(ErrAfterOutput), SrcErr(ErrUndefinedRead), SrcErr(ErrParseInTakenBranch)}

\* let lexer = Lexer::new(src); let ast = parse(lexer, &mut self.out);
ParseRepl ==
    /\ phase = "idle"
    /\ \E words \in ReplSources :
        \E toks \in {Scan(words)} :
            \E parsed \in {parse(toks)} :
                /\ src' = toks
                /\ ast' = parsed.ast
                /\ diag' = parsed.diag
    /\ phase' = "running"
    /\ pc' = 0
    /\ UNCHANGED <<env_tree, out, err, trace, runs, cactusVars, lexVars, unitVars>>

\* interpret has returned (normally or after printing an error); the next
\* call starts with a new source and a new sink on the same Interpreter
InterpretAgain ==
    /\ phase \in {"done", "halted"}
    /\ runs + 1 < MaxRuns
    /\ runs' = runs + 1
    /\ phase' = "idle"
    /\ src' = <<>>
    /\ ast' = AstNew
    /\ out' = <<>>
    /\ err' = <<>>
    /\ diag' = <<>>
    /\ pc' = 0
    /\ trace' = <<>>
    /\ UNCHANGED <<env_tree, cactusVars, lexVars, unitVars>>

NextRepl == ParseRepl \/ InterpretStep \/ InterpretReturn \/ InterpretAgain

SpecRepl == Init /\ [][NextRepl]_vars

\* the frame Interpreter::new created
GlobalFrame == EnvCactus_global(InterpreterNew)

\* c contains the global frame, and its active stack is non-empty with the
\* global frame at the bottom
GlobalAtBottom(c) ==
    /\ contains(c, GlobalFrame)
    /\ c.stack # <<>>
    /\ c.stack[1] = GlobalFrame

\* the environment trees an event of the trace saw
EventTrees(ev) ==
    (IF "before" \in DOMAIN ev THEN {ev.before} ELSE {})
    \cup (IF "after" \in DOMAIN ev THEN {ev.after} ELSE {})
    \cup (IF "env" \in DOMAIN ev THEN {ev.env} ELSE {})

(***************************************************************************)
(* C12: the environment tree always contains the global frame, and the     *)
(* active stack is never empty and has the global frame at its bottom: in  *)
(* the state after every root statement, in every tree seen on entering    *)
(* and leaving a block or a call and on defining a name, after a runtime   *)
(* error, and in later interpret calls on the same Interpreter.            *)
(***************************************************************************)
C12_GlobalAtBottom ==
    /\ GlobalAtBottom(env_tree)
    /\ \A i \in DOMAIN trace : \A c \in EventTrees(trace[i]) : GlobalAtBottom(c)

\* a second interpret call has halted on a runtime error raised two frames
\* above the global frame, and the frames were left again
C12_Witness ==
    /\ runs = 1
    /\ phase = "halted"
    /\ src = Scan(SrcAssignUndefinedInCall)
    /\ \E i \in DOMAIN trace :
          /\ trace[i].e = "enter"
          /\ Len(trace[i].after.stack) = 3
    /\ env_tree.stack = <<GlobalFrame>>

\* section C13
(***************************************************************************)
(* SpecAst: any sequence of push_stmt, push_root_stmt and push_expr on one *)
(* Ast.  ast is the arena; trace records each call with the index it       *)
(* returned and the node it was given.                                     *)
(***************************************************************************)
MaxNodes == 4

StmtNodes == {[k |-> "Print", expr |-> 0], [k |-> "Expression", expr |-> 0]}
ExprNodes == {[k |-> "Literal", value |-> LitNil], [k |-> "Literal", value |-> LitBool(TRUE)]}

AstPushStmt ==
    /\ Len(trace) < MaxNodes
    /\ \E node \in StmtNodes :
        /\ ast' = push_stmt(ast, node).ast
        /\ trace' = Append(trace, [e |-> "push_stmt", idx |-> push_stmt(ast, node).idx,
                                   node |-> node])
    /\ UNCHANGED <<src, env_tree, out, err, diag, pc, phase, runs, cactusVars, lexVars, unitVars>>

AstPushRootStmt ==
    /\ Len(trace) < MaxNodes
    /\ \E node \in StmtNodes :
        /\ ast' = push_root_stmt(ast, node).ast
        /\ trace' = Append(trace, [e |-> "push_root_stmt",
                                   idx |-> push_root_stmt(ast, node).idx, node |-> node])
    /\ UNCHANGED <<src, env_tree, out, err, diag, pc, phase, runs, cactusVars, lexVars, unitVars>>

AstPushExpr ==
    /\ Len(trace) < MaxNodes
    /\ \E node \in ExprNodes :
        /\ ast' = push_expr(ast, node).ast
        /\ trace' = Append(trace, [e |-> "push_expr", idx |-> push_expr(ast, node).idx,
                                   node |-> node])
    /\ UNCHANGED <<src, env_tree, out, err, diag, pc, phase, runs, cactusVars, lexVars, unitVars>>

NextAst == AstPushStmt \/ AstPushRootStmt \/ AstPushExpr

SpecAst == Init /\ [][NextAst]_vars

\* the calls of the trace that pushed into the statement pool / the expression pool
StmtPushes == SelectSeq(trace, LAMBDA ev : ev.e \in {"push_stmt", "push_root_stmt"})
ExprPushes == SelectSeq(trace, LAMBDA ev : ev.e = "push_expr")
RootPushes == SelectSeq(trace, LAMBDA ev : ev.e = "push_root_stmt")

(***************************************************************************)
(* C13: arena monotonicity.  Every index a push returned still resolves to *)
(* the node pushed with it; each pool hands out 0, 1, 2, .. in call order, *)
(* so indices increase and none is reused; each pool holds exactly the     *)
(* nodes pushed into it; roots() is the indices push_root_stmt returned,   *)
(* in call order.                                                          *)
(***************************************************************************)
C13_ArenaMonotonic ==
    /\ Len(ast.stmts) = Len(StmtPushes)
    /\ Len(ast.exprs) = Len(ExprPushes)
    /\ \A i \in DOMAIN StmtPushes :
          /\ StmtPushes[i].idx = i - 1
          /\ stmt(ast, StmtPushes[i].idx) = StmtPushes[i].node
    /\ \A i \in DOMAIN ExprPushes :
          /\ ExprPushes[i].idx = i - 1
          /\ expr(ast, ExprPushes[i].idx) = ExprPushes[i].node
    /\ roots(ast) = [i \in DOMAIN RootPushes |-> RootPushes[i].idx]

\* a root statement was pushed after another statement, and a different
\* statement and an expression were pushed after it
C13_Witness ==
    /\ Len(trace) = 4
    /\ trace[1].e = "push_stmt"
    /\ trace[2].e = "push_root_stmt"
    /\ trace[3].e = "push_stmt" /\ trace[3].node # trace[2].node
    /\ trace[4].e = "push_expr"
    /\ roots(ast) = <<1>>

\* section C14
(***************************************************************************)
(* Selection: a window [start, end) of byte offsets into source.  A source *)
(* is a sequence of characters; NonAscii stands for a character whose      *)
(* UTF-8 encoding is two bytes long, every other character is one byte.    *)
(***************************************************************************)
NonAscii == "U+00E9"
Width(c) == IF c = NonAscii THEN 2 ELSE 1

\* the byte offset at which character k of source starts; k = Len + 1 gives
\* the length of source in bytes
RECURSIVE ByteOffset(_, _)
ByteOffset(source, k) ==
    IF k <= 1 THEN 0 ELSE ByteOffset(source, k - 1) + Width(source[k - 1])

ByteLen(source) == ByteOffset(source, Len(source) + 1)

\* source.is_char_boundary(b)
IsCharBoundary(source, b) == \E k \in 1 .. (Len(source) + 1) : ByteOffset(source, k) = b

\* the character that starts at byte offset b
CharAt(source, b) == source[CHOOSE k \in 1 .. Len(source) : ByteOffset(source, k) = b]

\* &source[from..to] for boundaries from and to
RECURSIVE Slice(_, _, _)
Slice(source, from, to) ==
    IF from >= to THEN ""
    ELSE CharAt(source, from) \o Slice(source, from + Width(CharAt(source, from)), to)

Selection_new(source) ==
    [source |-> source, start |-> 0, end |-> 0, line |-> 1, panicked |-> FALSE]

\* self.source[self.end..].chars().next(): slicing off a char boundary panics
Selection_peek(sel) ==
    IF ~IsCharBoundary(sel.source, sel.end) THEN [panic |-> TRUE, c |-> None]
    ELSE IF sel.end = ByteLen(sel.source) THEN [panic |-> FALSE, c |-> None]
    ELSE [panic |-> FALSE, c |-> Some(CharAt(sel.source, sel.end))]

\* self.source.get((self.end + 1)..)?.chars().next()
Selection_peek_second(sel) ==
    IF ~IsCharBoundary(sel.source, sel.end + 1) \/ sel.end + 1 = ByteLen(sel.source)
    THEN None
    ELSE Some(CharAt(sel.source, sel.end + 1))

\* let c = self.peek()?; self.end += 1; if c == '\n' { self.line += 1 } Some(c)
Selection_advance(sel) ==
    LET p == Selection_peek(sel) IN
    IF sel.panicked \/ p.panic THEN [sel |-> [sel EXCEPT !.panicked = TRUE], c |-> None]
    ELSE IF p.c = None THEN [sel |-> sel, c |-> None]
    ELSE [sel |-> [sel EXCEPT !.end = @ + 1,
                              !.line = IF Unwrap(p.c) = "\n" THEN @ + 1 ELSE @],
          c |-> p.c]

\* advance_match under the name the lexer calls: advance over expected if it is next
try_match(sel, expected) ==
    LET p == Selection_peek(sel) IN
    IF sel.panicked \/ p.panic THEN [sel |-> [sel EXCEPT !.panicked = TRUE], ok |-> FALSE]
    ELSE IF p.c = Some(expected) THEN [sel |-> [sel EXCEPT !.end = @ + 1], ok |-> TRUE]
    ELSE [sel |-> sel, ok |-> FALSE]

\* chars is the set of characters pred accepts
RECURSIVE Selection_advance_while(_, _)
Selection_advance_while(sel, chars) ==
    LET p == Selection_peek(sel) IN
    IF sel.panicked \/ p.panic THEN [sel EXCEPT !.panicked = TRUE]
    ELSE IF p.c # None /\ Unwrap(p.c) \in chars
    THEN Selection_advance_while(Selection_advance(sel).sel, chars)
    ELSE sel

Selection_clear(sel) == [sel EXCEPT !.start = sel.end]

\* &self.source[self.start..self.end]: slicing off a char boundary panics
Selection_str(sel) ==
    IF \/ sel.panicked
       \/ ~IsCharBoundary(sel.source, sel.start)
       \/ ~IsCharBoundary(sel.source, sel.end)
    THEN [panic |-> TRUE, str |-> ""]
    ELSE [panic |-> FALSE, str |-> Slice(sel.source, sel.start, sel.end)]

Selection_eof(sel) == sel.end >= ByteLen(sel.source)

(***************************************************************************)
(* LexerInner and Lexer.  A token is [kind, payload, lexeme, line];        *)
(* payload is the data of TokenKind::String and TokenKind::Number.         *)
(***************************************************************************)
Digits == {"0", "1", "2", "3", "4", "5", "6", "7", "8", "9"}
DigitVal ==
    ("0" :> 0) @@ ("1" :> 1) @@ ("2" :> 2) @@ ("3" :> 3) @@ ("4" :> 4) @@ ("5" :> 5)
    @@ ("6" :> 6) @@ ("7" :> 7) @@ ("8" :> 8) @@ ("9" :> 9)

\* the characters that occur in the sources lexed here
LexChars ==
    {" ", "\n", "\t", "(", ")", ";", "/", "\"", "=", "!", "<", ".", "@", "_", NonAscii}
    \cup {"0", "1", "2", "a", "o", "r"}

IdentChars == {"a", "o", "r", "_"}

SingleChar ==
    ("(" :> "LeftParen") @@ (")" :> "RightParen") @@ ("{" :> "LeftBrace")
    @@ ("}" :> "RightBrace") @@ ("," :> "Comma") @@ ("." :> "Dot") @@ ("-" :> "Minus")
    @@ ("+" :> "Plus") @@ (";" :> "Semicolon") @@ ("*" :> "Star")

\* self.selection.str().parse::<f64>() of digits with an optional fraction
RECURSIVE ParseF64(_, _, _, _, _, _)
ParseF64(source, from, to, n, scale, frac) ==
    IF from >= to THEN Num(n, scale)
    ELSE IF CharAt(source, from) = "."
    THEN ParseF64(source, from + 1, to, n, scale, TRUE)
    ELSE ParseF64(source, from + 1, to, 10 * n + DigitVal[CharAt(source, from)],
                  IF frac THEN 10 * scale ELSE scale, frac)

\* Token { kind, lexeme: self.selection.str().into(), line: self.selection.line() }
LexerInner_token(sel, kind, payload) ==
    LET s == Selection_str(sel) IN
    [sel |-> [sel EXCEPT !.panicked = s.panic],
     tok |-> [kind |-> kind, payload |-> payload, lexeme |-> s.str, line |-> sel.line]]

LexerInner_string_token(sel0) ==
    LET sel1 == Selection_advance_while(sel0, LexChars \ {"\""})
        is_terminated == ~Selection_eof(sel1)
        sel2 == IF is_terminated THEN Selection_advance(sel1).sel ELSE sel1
        value == IF Selection_str(sel2).panic THEN ""
                 ELSE IF is_terminated
                 THEN Slice(sel2.source, sel2.start + 1, sel2.end - 1)
                 ELSE Slice(sel2.source, sel2.start + 1, sel2.end)
    IN  LexerInner_token(sel2, "String",
                         Some([value |-> value, is_terminated |-> is_terminated]))

LexerInner_number_token(sel0) ==
    LET sel1 == Selection_advance_while(sel0, Digits)
        fraction == /\ ~sel1.panicked
                    /\ Selection_peek(sel1).c = Some(".")
                    /\ Selection_peek_second(sel1) # None
                    /\ Unwrap(Selection_peek_second(sel1)) \in Digits
        sel2 == IF fraction
                THEN Selection_advance_while(Selection_advance(sel1).sel, Digits)
                ELSE sel1
    IN  LexerInner_token(sel2, "Number",
                         IF Selection_str(sel2).panic THEN None
                         ELSE Some(ParseF64(sel2.source, sel2.start, sel2.end, 0, 1, FALSE)))

LexerInner_ident_token(sel0) ==
    LET sel1 == Selection_advance_while(sel0, IdentChars)
        text == Selection_str(sel1).str
    IN  LexerInner_token(sel1, IF text \in DOMAIN Keywords THEN Keywords[text]
                               ELSE "Identifier", None)

\* loop { self.selection.clear(); match self.selection.advance() { .. } }
RECURSIVE LexerInner_advance(_)
LexerInner_advance(sel0) ==
    LET a == Selection_advance(Selection_clear(sel0))
        sel == a.sel
        c == IF a.c = None THEN "" ELSE Unwrap(a.c)
        two(second, both, one) ==
            LET m == try_match(sel, second) IN
            LexerInner_token(m.sel, IF m.ok THEN both ELSE one, None)
        slash == try_match(sel, "/")
    IN  IF sel.panicked \/ a.c = None THEN LexerInner_token(sel, "Eof", None)
        ELSE CASE c \in {" ", "\r", "\t", "\n"} -> LexerInner_advance(sel)
               [] c \in DOMAIN SingleChar -> LexerInner_token(sel, SingleChar[c], None)
               [] c = "!" -> two("=", "BangEqual", "Bang")
               [] c = "=" -> two("=", "EqualEqual", "Equal")
               [] c = "<" -> two("=", "LessEqual", "Less")
               [] c = ">" -> two("=", "GreaterEqual", "Greater")
               [] c = "/" ->
                     IF slash.ok
                     THEN LexerInner_advance(
                              Selection_advance_while(slash.sel, LexChars \ {"\n"}))
                     ELSE LexerInner_token(slash.sel, "Slash", None)
               [] c = "\"" -> LexerInner_string_token(sel)
               [] c \in Digits -> LexerInner_number_token(sel)
               [] c \in IdentChars -> LexerInner_ident_token(sel)
               [] OTHER -> LexerInner_token(sel, "Unknown", None)

Lexer_new(source) == [inner |-> Selection_new(source), peeked |-> None]

\* match self.peeked.take() { Some(token) => token, None => self.inner.advance() }
Lexer_next(l) ==
    IF l.peeked # None
    THEN [lexer |-> [l EXCEPT !.peeked = None], ret |-> Unwrap(l.peeked)]
    ELSE LET a == LexerInner_advance(l.inner) IN
         [lexer |-> [l EXCEPT !.inner = a.sel], ret |-> a.tok]

\* A peek that hands out the next token and does not keep it.
Lexer_peek_consuming(l) ==
    LET a == LexerInner_advance(l.inner) IN
    [lexer |-> [l EXCEPT !.inner = a.sel], ret |-> a.tok]

\* self.peeked.get_or_insert_with(|| self.inner.advance())
Lexer_peek(l) ==
    IF l.peeked # None
    THEN [lexer |-> l, ret |-> Unwrap(l.peeked)]
    ELSE LET a == LexerInner_advance(l.inner) IN
         [lexer |-> [inner |-> a.sel,
                     peeked |-> IF a.sel.panicked THEN None ELSE Some(a.tok)],
          ret |-> a.tok]

(***************************************************************************)
(* SpecLexer: a Lexer on one source, driven by any interleaving of next()  *)
(* and peek().  calls records each call: the token it returned and the     *)
(* selection the token was cut from, or that the call panicked.            *)
(***************************************************************************)
MaxSrcLen == 3
MaxCalls == 4

LexAlphabet == {"\n", "/", "\"", "=", "a", NonAscii}

LexSources ==
    UNION {[1 .. n -> LexAlphabet] : n \in 0 .. MaxSrcLen}
    \cup {<<"1", ".", "1", "2">>, <<"1", ".", "a">>, <<"o", "r", "_", "a">>,
          <<"!", "=", "<", "=", "(">>,
          <<"/", "/", "a", " ", "1", "\n", "\n", "a", ";">>,
          <<"a", "\n", "\"", "a", "\n", "\n", "\"", " ", "a">>,
          <<"(", "\t", ")", "\n">>, <<" ", "@", " ">>, <<"1", "@", "1">>}

Call(operation, l, ret) ==
    IF l.inner.panicked
    THEN [op |-> operation, returned |-> FALSE]
    ELSE [op |-> operation, returned |-> TRUE, tok |-> ret,
          start |-> l.inner.start, end |-> l.inner.end]

\* Lexer::new(source)
LexerNew ==
    /\ calls = <<>>
    /\ lexer = Lexer_new(<<>>)
    /\ \E source \in LexSources \ {<<>>} : lexer' = Lexer_new(source)
    /\ UNCHANGED <<calls, interpVars, cactusVars, unitVars>>

LexerNext ==
    /\ ~lexer.inner.panicked
    /\ Len(calls) < MaxCalls
    /\ \E r \in {Lexer_next(lexer)} :
        /\ lexer' = r.lexer
        /\ calls' = Append(calls, Call("next", r.lexer, r.ret))
    /\ UNCHANGED <<interpVars, cactusVars, unitVars>>

LexerPeek ==
    /\ ~lexer.inner.panicked
    /\ Len(calls) < MaxCalls
    /\ \E r \in {Lexer_peek(lexer)} :
        /\ lexer' = r.lexer
        /\ calls' = Append(calls, Call("peek", r.lexer, r.ret))
    /\ UNCHANGED <<interpVars, cactusVars, unitVars>>

NextLexer == LexerNew \/ LexerNext \/ LexerPeek

SpecLexer == Init /\ [][NextLexer]_vars

\* The tokens of source as next() alone returns them, up to the first Eof or
\* the panic: [toks, panicked], each entry of toks a token with its selection.
RECURSIVE LexAll(_, _)
LexAll(sel, acc) ==
    LET a == LexerInner_advance(sel) IN
    IF a.sel.panicked THEN [toks |-> acc, panicked |-> TRUE]
    ELSE IF a.tok.kind = "Eof"
    THEN [toks |-> Append(acc, [tok |-> a.tok, start |-> a.sel.start, end |-> a.sel.end]),
          panicked |-> FALSE]
    ELSE LexAll(a.sel, Append(acc, [tok |-> a.tok, start |-> a.sel.start,
                                    end |-> a.sel.end]))

Reference(source) == LexAll(Selection_new(source), <<>>)

\* the j-th token of the reference run, the final Eof repeating for ever
ReferenceToken(source, j) ==
    LET toks == Reference(source).toks IN
    IF j <= Len(toks) THEN toks[j].tok ELSE toks[Len(toks)].tok

\* the next() calls that returned, among the first i calls
NextsBefore(i) == Cardinality({j \in 1 .. i : calls[j].op = "next" /\ calls[j].returned})

(***************************************************************************)
(* C14: peek() consumes nothing.  The k-th next() returns the k-th token   *)
(* of the run that never peeks, and a peek() made after k next() calls     *)
(* returns the (k+1)-th; past the end both return Eof for ever.  So        *)
(* consecutive peeks agree, and the next() after a peek returns the peeked *)
(* token.                                                                  *)
(***************************************************************************)
C14_PeekConsumesNothing ==
    \A i \in DOMAIN calls :
        calls[i].returned =>
            IF calls[i].op = "next"
            THEN calls[i].tok = ReferenceToken(lexer.inner.source, NextsBefore(i))
            ELSE calls[i].tok = ReferenceToken(lexer.inner.source, NextsBefore(i) + 1)

\* two peeks, then two next() calls that return different tokens, on a source
\* of a two-character token and a string
C14_Witness ==
    /\ lexer.inner.source = <<"=", "=", "\"">>
    /\ Len(calls) = 4
    /\ calls[1].op = "peek" /\ calls[2].op = "peek"
    /\ calls[3].op = "next" /\ calls[4].op = "next"
    /\ calls[2].tok = calls[3].tok
    /\ calls[3].tok.kind = "EqualEqual"
    /\ calls[4].tok.kind = "String"

\* section C15
(***************************************************************************)
(* The text between two tokens: blanks and // comments only.               *)
(***************************************************************************)
RECURSIVE Skipped(_, _, _, _)
Skipped(source, from, to, in_comment) ==
    IF from >= to THEN TRUE
    ELSE LET c == CharAt(source, from) IN
         IF in_comment THEN Skipped(source, from + Width(c), to, c # "\n")
         ELSE IF c \in {" ", "\r", "\t", "\n"}
         THEN Skipped(source, from + Width(c), to, FALSE)
         ELSE /\ c = "/"
              /\ from + 1 < to
              /\ CharAt(source, from + 1) = "/"
              /\ Skipped(source, from + 2, to, TRUE)

\* the lexemes of toks, with the skipped text between them, are source
Reproduces(source, toks) ==
    /\ \A j \in DOMAIN toks :
        /\ toks[j].tok.lexeme = Slice(source, toks[j].start, toks[j].end)
        /\ Skipped(source, IF j = 1 THEN 0 ELSE toks[j - 1].end, toks[j].start, FALSE)
    /\ toks[Len(toks)].end = ByteLen(source)

(***************************************************************************)
(* C15: lexing is total.  Whatever the source, no call of the lexer fails, *)
(* the tokens that next() returns end with Eof, and their lexemes with the *)
(* skipped blanks and comments between them are the source.                *)
(***************************************************************************)
C15_LexingTotal ==
    /\ ~lexer.inner.panicked
    /\ LET r == Reference(lexer.inner.source) IN
       /\ ~r.panicked
       /\ r.toks[Len(r.toks)].tok.kind = "Eof"
       /\ \A j \in 1 .. (Len(r.toks) - 1) : r.toks[j].tok.kind # "Eof"
       /\ Reproduces(lexer.inner.source, r.toks)

\* the same, for the sources of one-byte characters only
C15_AsciiLexingTotal ==
    (\A k \in DOMAIN lexer.inner.source : lexer.inner.source[k] # NonAscii)
        => C15_LexingTotal

\* section C16
\* the number of line terminators in text
LineFeeds(text) == Cardinality({k \in 1 .. Len(text) : SubSeq(text, k, k) = "\n"})

(***************************************************************************)
(* C16: each print statement writes one line: the display text of the      *)
(* value and exactly one line terminator.  No value in the sources holds a *)
(* line feed of its own, so every text written has exactly one; and the    *)
(* two programs of math_expressions write "6" and "8" with one newline.    *)
(***************************************************************************)
C16_PrintWritesOneLine ==
    /\ \A i \in DOMAIN out : LineFeeds(out[i]) = 1
    /\ Finished /\ src = Scan(SrcMathPrecedence) => out = <<"6\n">>
    /\ Finished /\ src = Scan(SrcMathGrouping) => out = <<"8\n">>

\* section C17
(***************************************************************************)
(* Where a return statement stands in the trace.  Walking back from event  *)
(* i, FramesToCall counts the frames entered and not yet left, up to and   *)
(* with the frame of the innermost call that has not ended; it is 0 when   *)
(* event i is not inside a call.                                           *)
(***************************************************************************)
RECURSIVE FramesToCall(_, _, _, _)
FramesToCall(tr, i, closed, open) ==
    IF i < 1 THEN 0
    ELSE CASE tr[i].e = "exit" -> FramesToCall(tr, i - 1, closed + 1, open)
           [] tr[i].e = "enter" /\ closed > 0 -> FramesToCall(tr, i - 1, closed - 1, open)
           [] tr[i].e = "enter" /\ closed = 0 ->
                 IF i > 1 /\ tr[i - 1].e = "call" THEN open + 1
                 ELSE FramesToCall(tr, i - 1, 0, open + 1)
           [] OTHER -> FramesToCall(tr, i - 1, closed, open)

\* event i is the execution of a return statement that has no expression or
\* whose expression is a literal or a variable
IsReturnExec(i) ==
    /\ trace[i].e = "exec"
    /\ stmt(ast, trace[i].stmt).k = "Return"
    /\ IsSome(stmt(ast, trace[i].stmt).expr)
           => expr(ast, Unwrap(stmt(ast, trace[i].stmt).expr)).k \in {"Literal", "Variable"}

\* the events that evaluate the expression of the return statement of event i
ReturnEvalEvents(i) ==
    LET s == stmt(ast, trace[i].stmt) IN
    IF ~IsSome(s.expr) THEN 0
    ELSE IF expr(ast, Unwrap(s.expr)).k = "Literal" THEN 1 ELSE 2

(***************************************************************************)
(* C17: a return statement executed inside a function body ends the call   *)
(* at once.  After the return statement and its value, the only events     *)
(* until the call's frame is left are the exits of the frames entered      *)
(* since the call: no statement runs, no expression or loop condition is   *)
(* evaluated, nothing is written.  The call evaluates to the returned      *)
(* value, to nil after a bare return, and to nil when the body ends        *)
(* without a return.                                                       *)
(***************************************************************************)
C17_ReturnEndsCall ==
    /\ \A i \in DOMAIN trace :
        (IsReturnExec(i) /\ FramesToCall(trace, i, 0, 0) > 0) =>
            \A k \in 1 .. FramesToCall(trace, i, 0, 0) :
                LET j == i + ReturnEvalEvents(i) + k IN
                j <= Len(trace) /\ trace[j].e = "exit"
    /\ Finished /\ src = Scan(SrcReturnInLoop) =>
            out = <<Text(LitNumber(0)), Text(LitNumber(1))>>
    /\ Finished /\ src = Scan(SrcReturnInBlocks) => out = <<Text(ValNil)>>
    /\ Finished /\ src = Scan(SrcReturnBare) => out = <<Text(LitNumber(1)), Text(ValNil)>>
    /\ Finished /\ src = Scan(SrcNoReturn) => out = <<Text(LitNumber(1)), Text(ValNil)>>

\* f returned from inside an if branch in the block of a while loop, on the
\* loop's second turn, and the call printed the value returned
C17_Witness ==
    /\ src = Scan(SrcReturnInLoop)
    /\ phase = "done"
    /\ out = <<Text(LitNumber(0)), Text(LitNumber(1))>>
    /\ \E i \in DOMAIN trace : IsReturnExec(i) /\ FramesToCall(trace, i, 0, 0) = 2

\* section C18
(***************************************************************************)
(* The programs of CallSources: g prints 'arg' and returns 1, f takes one  *)
(* parameter and prints 'body', h is not defined.  The call stands on line *)
(* 3 and is followed by print 'next'.                                      *)
(***************************************************************************)
CallArity(callee) == IF callee = <<"f">> THEN 1 ELSE 0
CallIsCallable(callee) == callee \in {<<"f">>, <<"clock">>}
CallArgCount(args) == IF args = <<>> THEN 0 ELSE IF Len(args) > 3 THEN 2 ELSE 1
CallLine(e) == <<ErrorText(e) \o "\n">>
CallUndefined == CallLine([kind |-> "UndefinedVariable", line |-> 3, name |-> "h"])
CallBadCall == CallLine([kind |-> "BadCall", line |-> 3])
CallWrongNumberOfArgs(callee, args) ==
    CallLine([kind |-> "WrongNumberOfArgs", line |-> 3, expected |-> CallArity(callee),
              got |-> CallArgCount(args)])
\* what evaluating the callee writes, and what evaluating the arguments writes
CalleeOut(callee) == IF callee = <<"g", "(", ")">> THEN <<Text(LitString("arg"))>> ELSE <<>>
ArgsOut(args) ==
    IF args = <<"h">> THEN <<>> ELSE [k \in 1 .. CallArgCount(args) |-> Text(LitString("arg"))]

(***************************************************************************)
(* C18: a call evaluates its callee, then checks that it is callable       *)
(* (BadCall) and that the number of arguments is its arity                 *)
(* (WrongNumberOfArgs), and only then evaluates the arguments, left to     *)
(* right, and runs the body.  When a check fails nothing of the arguments  *)
(* is evaluated and the body does not run.                                 *)
(***************************************************************************)
C18_ChecksBeforeArguments ==
    \A callee \in CallCallees, args \in CallArgs :
        (Finished /\ src = Scan(SrcCall(callee, args))) =>
            CASE callee = <<"h">> -> out = <<>> /\ err = CallUndefined
              [] ~CallIsCallable(callee) -> out = CalleeOut(callee) /\ err = CallBadCall
              [] CallArgCount(args) # CallArity(callee) ->
                    out = <<>> /\ err = CallWrongNumberOfArgs(callee, args)
              [] args = <<"h">> -> out = <<>> /\ err = CallUndefined
              [] callee = <<"f">> ->
                    /\ out = ArgsOut(args) \o <<Text(LitString("body")), Text(LitString("next"))>>
                    /\ err = <<>>
              [] OTHER -> out = <<Text(LitString("next"))>> /\ err = <<>>

\* the order the code has: callee, callable check, arguments, arity check
C18_ArityAfterArguments ==
    \A callee \in CallCallees, args \in CallArgs :
        (Finished /\ src = Scan(SrcCall(callee, args))) =>
            CASE callee = <<"h">> -> out = <<>> /\ err = CallUndefined
              [] ~CallIsCallable(callee) -> out = CalleeOut(callee) /\ err = CallBadCall
              [] args = <<"h">> -> out = <<>> /\ err = CallUndefined
              [] CallArgCount(args) # CallArity(callee) ->
                    out = ArgsOut(args) /\ err = CallWrongNumberOfArgs(callee, args)
              [] callee = <<"f">> ->
                    /\ out = ArgsOut(args) \o <<Text(LitString("body")), Text(LitString("next"))>>
                    /\ err = <<>>
              [] OTHER -> out = <<Text(LitString("next"))>> /\ err = <<>>

\* section C19
\* what execute returns for the root statement that interpret runs next
RootResults ==
    {execute(ast, [env |-> env_tree, out |-> out, trace |-> trace, now |-> now,
                   fuel |-> MaxFuel], roots(ast)[pc + 1]) : now \in ClockVals}

C19_ReturnInCallIsCaught ==
    (phase = "running" /\ pc < Len(roots(ast))) =>
        \A result \in RootResults :
            (result.ok /\ is_break(result.v)) =>
                \E i \in (Len(trace) + 1) .. Len(result.st.trace) :
                    /\ result.st.trace[i].e = "exec"
                    /\ stmt(ast, result.st.trace[i].stmt).k = "Return"
                    /\ FramesToCall(result.st.trace, i, 0, 0) = 0

\* section C20
\* one plus the number of LF characters of source before byte offset b
LineAtByte(source, b) ==
    1 + Cardinality({k \in DOMAIN source : source[k] = "\n" /\ ByteOffset(source, k) < b})

(***************************************************************************)
(* C20: every token that next() or peek() returns carries the line of its  *)
(* first character, one plus the number of LF characters before it, and    *)
(* its lexeme is the slice of the source it was cut from.                  *)
(***************************************************************************)
C20_TokenLineIsFirstLine ==
    \A i \in DOMAIN calls :
        calls[i].returned =>
            /\ calls[i].tok.lexeme = Slice(lexer.inner.source, calls[i].start, calls[i].end)
            /\ calls[i].tok.line = LineAtByte(lexer.inner.source, calls[i].start)

\* the same, for the tokens that hold no LF character
C20_SingleLineTokenLine ==
    \A i \in DOMAIN calls :
        (/\ calls[i].returned
         /\ \A k \in DOMAIN lexer.inner.source :
               (/\ calls[i].start <= ByteOffset(lexer.inner.source, k)
                /\ ByteOffset(lexer.inner.source, k) < calls[i].end)
                   => lexer.inner.source[k] # "\n")
            => /\ calls[i].tok.lexeme
                    = Slice(lexer.inner.source, calls[i].start, calls[i].end)
               /\ calls[i].tok.line = LineAtByte(lexer.inner.source, calls[i].start)

\* section C21
\* the value that the word w of TruthWords evaluates to
TruthVal(w) ==
    CASE w = "false" -> ValBool(FALSE) [] w = "true" -> ValBool(TRUE) [] w = "nil" -> ValNil
      [] w = "0" -> LitNumber(0) [] w = "1" -> LitNumber(1)
      [] w = "''" -> ValString("") [] w = "'hi'" -> ValString("hi")
      [] w = "clock" -> ValClock

\* only false and nil are falsey
TruthFalsey(w) == w \in {"false", "nil"}

\* what SrcTruth(w) writes when if, !, and, or and while all take w for
\* truthy exactly when it is not falsey
TruthOut(w) ==
    IF TruthFalsey(w)
    THEN <<Text(LitNumber(2)), Text(ValBool(TRUE)), Text(TruthVal(w)), Text(LitNumber(3))>>
    ELSE <<Text(LitNumber(1)), Text(ValBool(FALSE)), Text(LitNumber(3)), Text(TruthVal(w)),
           Text(TruthVal(w))>>

(***************************************************************************)
(* C21: only false and nil are falsey.  is_truthy is false for Bool(false) *)
(* and Nil and true for every other value: numbers with 0 among them,      *)
(* strings with the empty one among them, callables.  The condition of an  *)
(* if and of a while and the operand of !, and and or are all decided by   *)
(* it.                                                                     *)
(***************************************************************************)
C21_OnlyFalseAndNilAreFalsey ==
    /\ \A w \in TruthWords : is_truthy(TruthVal(w)) = ~TruthFalsey(w)
    /\ is_truthy(ValFunction("f", <<>>, <<>>))
    /\ \A w \in TruthWords :
        (Finished /\ src = Scan(SrcTruth(w))) =>
            /\ phase = "done"
            /\ err = <<>>
            /\ out = TruthOut(w)

\* the program ran to its end with 0 as the condition and operand, and 0 was
\* taken for truthy five times
C21_Witness ==
    /\ src = Scan(SrcTruth("0"))
    /\ phase = "done"
    /\ Len(out) = 5
    /\ out[1] = Text(LitNumber(1))
    /\ out[5] = Text(LitNumber(0))

\* section C23
Entered == {i \in DOMAIN trace : trace[i].e = "enter"}
Exited == {i \in DOMAIN trace : trace[i].e = "exit"}

\* the exit at i is the first event after the return statement executed at j
\* and the evaluation of its value
ExitAfterReturn(i, j) ==
    /\ j < i
    /\ trace[i].e = "exit"
    /\ IsReturnExec(j)
    /\ \A k \in (j + 1) .. (i - 1) : trace[k].e \in {"eval", "read"}

(***************************************************************************)
(* C23: execute_block leaves the active stack as it found it on every      *)
(* exit.  Every block or call that was entered has exited by the end of    *)
(* the root statement, also when a return or a runtime error cut it short; *)
(* at its exit the stack is the stack at its entry plus the one frame it   *)
(* pushed, and after its pop the stack is the stack at its entry, so       *)
(* current() is what it was.  Between root statements the current frame is *)
(* the global frame.                                                       *)
(***************************************************************************)
C23_BlockRestoresStack ==
    /\ Cardinality(Entered) = Cardinality(Exited)
    /\ \A i \in Exited :
        /\ Len(trace[i].before.stack) = Len(trace[i].entry.stack) + 1
        /\ ButLast(trace[i].before.stack) = trace[i].entry.stack
        /\ trace[i].after.stack = trace[i].entry.stack
        /\ current(trace[i].after) = current(trace[i].entry)
    /\ env_tree.stack = <<EnvCactus_global(env_tree)>>
    /\ EnvCactus_current(env_tree) = EnvCactus_global(env_tree)

\* a runtime error was raised two blocks deep and both frames were popped
C23_Witness ==
    /\ phase = "halted"
    /\ Len(trace) >= 3
    /\ trace[Len(trace)].e = "exit"
    /\ trace[Len(trace) - 1].e = "exit"
    /\ trace[Len(trace) - 2].e = "undefined"
    /\ trace[Len(trace) - 1].after = trace[Len(trace)].before
    /\ Len(trace[Len(trace)].before.stack) = 2

\* a block ran to its end and was popped
C23_WitnessNormal ==
    \E i \in Exited : i > 1 /\ trace[i - 1].e = "out"

\* a return left two nested blocks and the call, and all three frames were popped
C23_WitnessReturn ==
    \E j \in DOMAIN trace : \E i \in Exited :
        /\ ExitAfterReturn(i, j)
        /\ {i + 1, i + 2} \subseteq Exited

\* section C25
\* the exit at i is the exit of a call's frame made while other frames were active:
\* the frame it pops is parented at the global frame, not at the frame below it
IsNestedCallExit(i) ==
    /\ trace[i].e = "exit"
    /\ Len(trace[i].entry.stack) > 1
    /\ parent(trace[i].before, Last(trace[i].before.stack))
            = Some(EnvCactus_global(trace[i].before))

\* the enter at i is the entry of a call's frame: the event before it is the call
IsCallEnter(i) == i > 1 /\ trace[i].e = "enter" /\ trace[i - 1].e = "call"

(***************************************************************************)
(* C25: each call of a user function runs in a fresh frame of its own.     *)
(* The frame a call enters is a new frame on top of the active stack.      *)
(* When a call made below other active frames exits, the bindings of every *)
(* suspended frame above the global one are what they were at its entry.   *)
(* A function that calls itself reads its own parameter and local again    *)
(* after the inner call returns, and the recursive fibonacci of 3 is 2.    *)
(***************************************************************************)
C25_CallsHaveOwnFrames ==
    /\ \A i \in DOMAIN trace :
        IsCallEnter(i) =>
            /\ ButLast(trace[i].after.stack) = trace[i].before.stack
            /\ ~contains(trace[i].before, Last(trace[i].after.stack))
    /\ \A i \in DOMAIN trace :
        IsNestedCallExit(i) =>
            \A k \in 2 .. Len(trace[i].entry.stack) :
                node_data(trace[i].before, trace[i].entry.stack[k])
                    = node_data(trace[i].entry, trace[i].entry.stack[k])
    /\ Finished /\ src = Scan(SrcRecursionLocals) =>
            out = <<Text(LitNumber(2)), Text(LitNumber(4)),
                    Text(LitNumber(1)), Text(LitNumber(2))>>
    /\ Finished /\ src = Scan(SrcFibonacci) => out = <<Text(LitNumber(2))>>

\* f(1) called f(2), which defined and assigned its own n and l, and then
\* f(1) printed its own n and l
C25_Witness ==
    /\ phase = "done"
    /\ src = Scan(SrcRecursionLocals)
    /\ Len(out) = 4
    /\ \E i \in DOMAIN trace : IsNestedCallExit(i)

\* fibonacci(3) ran its five calls and printed
C25_WitnessFibonacci ==
    /\ phase = "done"
    /\ src = Scan(SrcFibonacci)
    /\ Cardinality({i \in DOMAIN trace : trace[i].e = "call"}) = 5
    /\ out # <<>>

\* section C28
\* the indices the slab has handed out so far: its entries never shrink, and
\* every key below their length has been returned by an insert
IssuedBefore(c) == 0 .. (Len(c.nodes.entries) - 1)

(***************************************************************************)
(* C28: an index returned by push or push_at is never returned again: the  *)
(* index of the frame a push adds is none of the indices handed out before *)
(* it, whether their frames are live or popped.                            *)
(***************************************************************************)
C28_IndexNeverReused ==
    [][(CactusPush \/ CactusPushAt) => Last(cactus'.stack) \notin IssuedBefore(cactus)]_vars

\* What holds: the frames that are live at one time have different indices,
\* and a push returns an index that names no live frame.
C28_LiveIndicesDistinct ==
    /\ \A i, j \in DOMAIN cactus.stack : i # j => cactus.stack[i] # cactus.stack[j]
    /\ \A i \in DOMAIN cactus.stack : contains(cactus, cactus.stack[i])
    /\ ~contains(cactus, cactus.nodes.next)

\* a frame was pushed on the index of a popped frame
C28_IndexReused ==
    /\ op \in {"push", "push_at"}
    /\ Last(cactus.stack) < Len(cactus.nodes.entries) - 1

\* section C29
(***************************************************************************)
(* Tree<T>: a slab of nodes [value, parent, first_child, last_child,       *)
(* prev_sibling, next_sibling].  An operation returns the tree after it    *)
(* with the index or the value it returns.                                 *)
(***************************************************************************)
TreeGet(t, idx) == t.nodes.entries[idx + 1].node

TreeIsEmpty(t) == \A k \in DOMAIN t.nodes.entries : ~t.nodes.entries[k].occ

\* Index(self.nodes.insert(Node { value, parent: None, .. }))
add_root(t, value) ==
    [t |-> [nodes |-> SlabInsert(t.nodes,
                                 [value |-> value, parent |-> None,
                                  first_child |-> None, last_child |-> None,
                                  next_sibling |-> None, prev_sibling |-> None])],
     idx |-> t.nodes.next]

\* let prev_sibling = self[parent].last_child; let idx = insert(..);
\* parent.first_child.get_or_insert(idx); parent.last_child = Some(idx);
\* if let Some(prev_sibling) = prev_sibling { self[prev_sibling].next_sibling = Some(idx) }
add_leaf(t, parentIdx, value) ==
    LET prev_sibling == TreeGet(t, parentIdx).last_child
        idx == t.nodes.next
        inserted == [nodes |-> SlabInsert(t.nodes,
                                          [value |-> value, parent |-> Some(parentIdx),
                                           first_child |-> None, last_child |-> None,
                                           next_sibling |-> None,
                                           prev_sibling |-> prev_sibling])]
        adopted == [inserted EXCEPT
                        !.nodes.entries[parentIdx + 1].node.first_child =
                            IF @ = None THEN Some(idx) ELSE @,
                        !.nodes.entries[parentIdx + 1].node.last_child = Some(idx)]
    IN  [t |-> IF prev_sibling # None
               THEN [adopted EXCEPT
                        !.nodes.entries[Unwrap(prev_sibling) + 1].node.next_sibling = Some(idx)]
               ELSE adopted,
         idx |-> idx]

\* A removal that leaves the next sibling's prev_sibling as it was.
remove_leaf_half_unlinked(t, idx) ==
    LET r == SlabTryRemove(t.nodes, idx) IN
    IF r.ret = None THEN [t |-> t, ret |-> None]
    ELSE LET node == Unwrap(r.ret)
             removed == [nodes |-> r.slab]
             p == Unwrap(node.parent)
             orphaned == [removed EXCEPT
                            !.nodes.entries[p + 1].node.first_child =
                                IF @ = Some(idx) THEN node.next_sibling ELSE @,
                            !.nodes.entries[p + 1].node.last_child =
                                IF @ = Some(idx) THEN node.prev_sibling ELSE @]
         IN  [t |-> IF node.parent = None THEN removed
                    ELSE IF node.prev_sibling # None
                    THEN [orphaned EXCEPT
                            !.nodes.entries[Unwrap(node.prev_sibling) + 1].node.next_sibling =
                                node.next_sibling]
                    ELSE orphaned,
              ret |-> Some(node.value)]

\* let node = self.nodes.try_remove(idx)?; if let Some(parent) = node.parent {
\* fix parent.first_child, parent.last_child, prev.next_sibling, next.prev_sibling }
remove_leaf(t, idx) ==
    LET r == SlabTryRemove(t.nodes, idx) IN
    IF r.ret = None THEN [t |-> t, ret |-> None]
    ELSE LET node == Unwrap(r.ret)
             removed == [nodes |-> r.slab]
             p == Unwrap(node.parent)
             orphaned == [removed EXCEPT
                            !.nodes.entries[p + 1].node.first_child =
                                IF @ = Some(idx) THEN node.next_sibling ELSE @,
                            !.nodes.entries[p + 1].node.last_child =
                                IF @ = Some(idx) THEN node.prev_sibling ELSE @]
             after_prev == IF node.prev_sibling # None
                           THEN [orphaned EXCEPT
                                    !.nodes.entries[Unwrap(node.prev_sibling) + 1]
                                        .node.next_sibling = node.next_sibling]
                           ELSE orphaned
         IN  [t |-> IF node.parent = None THEN removed
                    ELSE IF node.next_sibling # None
                    THEN [after_prev EXCEPT
                            !.nodes.entries[Unwrap(node.next_sibling) + 1].node.prev_sibling =
                                node.prev_sibling]
                    ELSE after_prev,
              ret |-> Some(node.value)]

(***************************************************************************)
(* SpecTree: add_root, add_leaf and remove_leaf in any order that their    *)
(* assertions allow.  The value of a node is the number of its insertion,  *)
(* one more than the greatest value in the tree, so that among the nodes   *)
(* of a tree a greater value means a later insertion.                      *)
(***************************************************************************)
MaxStamp == 5

TreeLive(t) == {i \in 0 .. (Len(t.nodes.entries) - 1) : SlabContains(t.nodes, i)}

RECURSIVE MaxOf(_)
MaxOf(S) ==
    IF S = {} THEN 0
    ELSE LET x == CHOOSE x \in S : TRUE
             m == MaxOf(S \ {x})
         IN  IF x > m THEN x ELSE m

NextStamp(t) == 1 + MaxOf({TreeGet(t, i).value : i \in TreeLive(t)})

\* assert!(self.is_empty())
TreeAddRoot ==
    /\ TreeIsEmpty(tree)
    /\ NextStamp(tree) <= MaxStamp
    /\ tree' = add_root(tree, NextStamp(tree)).t
    /\ UNCHANGED <<arglist, chunk, added, parser, interpVars, cactusVars, lexVars>>

\* &self[parent] panics unless parent is in the tree
TreeAddLeaf ==
    /\ NextStamp(tree) <= MaxStamp
    /\ \E parentIdx \in TreeLive(tree) :
        tree' = add_leaf(tree, parentIdx, NextStamp(tree)).t
    /\ UNCHANGED <<arglist, chunk, added, parser, interpVars, cactusVars, lexVars>>

\* assert!(self.get(idx).map_or(true, |n| n.first_child.is_none()), "Node is not a leaf")
TreeRemoveLeaf ==
    /\ \E idx \in 0 .. Len(tree.nodes.entries) :
        /\ SlabContains(tree.nodes, idx) => TreeGet(tree, idx).first_child = None
        /\ tree' = remove_leaf(tree, idx).t
    /\ UNCHANGED <<arglist, chunk, added, parser, interpVars, cactusVars, lexVars>>

NextTree == TreeAddRoot \/ TreeAddLeaf \/ TreeRemoveLeaf

SpecTree == Init /\ [][NextTree]_vars

TreeChildren(t, i) == {j \in TreeLive(t) : TreeGet(t, j).parent = Some(i)}

\* every link of a live node names a live node
LinksLive(t) ==
    \A i \in TreeLive(t) :
        \A link \in {TreeGet(t, i).parent, TreeGet(t, i).first_child, TreeGet(t, i).last_child,
                     TreeGet(t, i).prev_sibling, TreeGet(t, i).next_sibling} :
            link # None => Unwrap(link) \in TreeLive(t)

\* the children of i are one chain from first_child to last_child, in the
\* order of their insertion, and prev and next are inverses of each other
ChildrenChained(t, i) ==
    LET n == TreeGet(t, i)
        C == TreeChildren(t, i)
    IN  /\ (n.first_child = None) = (C = {})
        /\ (n.last_child = None) = (C = {})
        /\ C # {} =>
            /\ Unwrap(n.first_child) \in C
            /\ Unwrap(n.last_child) \in C
            /\ {j \in C : TreeGet(t, j).prev_sibling = None} = {Unwrap(n.first_child)}
            /\ {j \in C : TreeGet(t, j).next_sibling = None} = {Unwrap(n.last_child)}
        /\ \A j \in C :
            /\ TreeGet(t, j).next_sibling # None =>
                LET k == Unwrap(TreeGet(t, j).next_sibling) IN
                /\ k \in C
                /\ TreeGet(t, k).prev_sibling = Some(j)
                /\ TreeGet(t, k).value > TreeGet(t, j).value
            /\ TreeGet(t, j).prev_sibling # None =>
                LET k == Unwrap(TreeGet(t, j).prev_sibling) IN
                /\ k \in C
                /\ TreeGet(t, k).next_sibling = Some(j)

\* the one node without a parent has no siblings
RootAlone(t) ==
    /\ Cardinality({i \in TreeLive(t) : TreeGet(t, i).parent = None}) <= 1
    /\ \A i \in TreeLive(t) :
        TreeGet(t, i).parent = None =>
            TreeGet(t, i).prev_sibling = None /\ TreeGet(t, i).next_sibling = None

(***************************************************************************)
(* C29: after any sequence of add_root, add_leaf and remove_leaf the links *)
(* of the tree are consistent: every link of a live node names a live      *)
(* node, so that no link names a removed leaf; the children of each node   *)
(* are one doubly linked chain from first_child to last_child in insertion *)
(* order, with prev and next links mutual inverses.                        *)
(***************************************************************************)
C29_LinksConsistent ==
    /\ LinksLive(tree)
    /\ \A i \in TreeLive(tree) : ChildrenChained(tree, i)
    /\ RootAlone(tree)

\* the middle one of three children was removed and a vacated index is free
C29_Witness ==
    \E i \in TreeLive(tree) :
        /\ Cardinality(TreeChildren(tree, i)) = 2
        /\ Cardinality(TreeLive(tree)) = 3
        /\ Len(tree.nodes.entries) = 4
        /\ TreeGet(tree, Unwrap(TreeGet(tree, i).first_child)).value + 2
                = TreeGet(tree, Unwrap(TreeGet(tree, i).last_child)).value

\* section C30
(***************************************************************************)
(* Chunk.  add_constant returns the chunk after it with the u8 it returns. *)
(***************************************************************************)
U8Values == 256

\* let idx = self.constants.len(); self.constants.push(v); idx as u8
add_constant(c, v) ==
    [c |-> [c EXCEPT !.constants = Append(@, v)],
     idx |-> Len(c.constants) % U8Values]

\* OpCode::Constant => chunk.constants[usize::from(read_byte())]
ConstantAt(c, byte) == c.constants[byte + 1]

(***************************************************************************)
(* SpecChunk: add_constant called again and again on one chunk.  The first *)
(* value is any of ChunkVals and each later one is the one before plus     *)
(* one, so that no two constants of the pool are equal.                    *)
(***************************************************************************)
MaxConstants == 258

ChunkVals == {1, 2}

ChunkAddConstant ==
    /\ Len(chunk.constants) < MaxConstants
    /\ \E v \in IF chunk.constants = <<>> THEN ChunkVals ELSE {Last(chunk.constants) + 1} :
        /\ chunk' = add_constant(chunk, v).c
        /\ added' = Append(added, [value |-> v, idx |-> add_constant(chunk, v).idx])
    /\ UNCHANGED <<arglist, tree, parser, interpVars, cactusVars, lexVars>>

NextChunk == ChunkAddConstant

SpecChunk == Init /\ [][NextChunk]_vars

(***************************************************************************)
(* C30: add_constant returns an index at which the constants pool holds    *)
(* the value just added, however many constants were added before it.      *)
(***************************************************************************)
C30_IndexHoldsValue ==
    \A k \in DOMAIN added : ConstantAt(chunk, added[k].idx) = added[k].value

\* What holds: the first 256 constants are found at the index returned, and
\* every index returned is the position modulo 256.
C30_IndexHoldsValueBelow256 ==
    \A k \in DOMAIN added :
        /\ added[k].idx = (k - 1) % U8Values
        /\ k <= U8Values => ConstantAt(chunk, added[k].idx) = added[k].value

\* the 257th constant was added and index 0 was returned for it
C30_IndexWrapped ==
    /\ Len(added) = 257
    /\ Last(added).idx = 0
    /\ ConstantAt(chunk, 0) # Last(added).value

\* section C22
(***************************************************************************)
(* SpecArgs: the argument loop of call, one turn per step, on the call     *)
(* statement f(1, 1, ..., 1); with few arguments and with about MaxArgs.   *)
(***************************************************************************)
MaxExtraArgs == 2

\* the words of n arguments, with the commas between them
ArgWords(n) == [k \in 1 .. (IF n = 0 THEN 0 ELSE 2 * n - 1) |-> IF k % 2 = 1 THEN "1" ELSE ","]

SrcArgs(n) == <<"f", "(">> \o ArgWords(n) \o <<")", ";">>

ArgCounts == {0, 1, 2} \cup ((MaxArgs - 1) .. (MaxArgs + MaxExtraArgs))

\* A turn that lets the 256th argument in.
call_args_turn_late(toks, ps, args) ==
    IF Len(args) > MaxArgs
    THEN [at |-> "error", ps |-> next(toks, ps).ps, args |-> args,
          error |-> Some([token |-> next(toks, ps).tok,
                          message |-> "Can't have more than 255 arguments"])]
    ELSE LET arg == Descend("expression", toks, ps) IN
         IF ~arg.ok
         THEN [at |-> "error", ps |-> arg.ps, args |-> args, error |-> Some(arg.v)]
         ELSE [at |-> IF match_next(toks, arg.ps, "Comma").ok THEN "loop" ELSE "close",
               ps |-> match_next(toks, arg.ps, "Comma").ps,
               args |-> Append(args, arg.v), error |-> None]

\* one turn of the loop:
\* if args.len() >= 255 { return Err(Error::new(stream.next(), ..)) }
\* let arg = expression()?; args.push(arg); if match_next(Comma).is_err() { break }
call_args_turn(toks, ps, args) ==
    IF Len(args) >= MaxArgs
    THEN [at |-> "error", ps |-> next(toks, ps).ps, args |-> args,
          error |-> Some([token |-> next(toks, ps).tok,
                          message |-> "Can't have more than 255 arguments"])]
    ELSE LET arg == Descend("expression", toks, ps) IN
         IF ~arg.ok
         THEN [at |-> "error", ps |-> arg.ps, args |-> args, error |-> Some(arg.v)]
         ELSE [at |-> IF match_next(toks, arg.ps, "Comma").ok THEN "loop" ELSE "close",
               ps |-> match_next(toks, arg.ps, "Comma").ps,
               args |-> Append(args, arg.v), error |-> None]

\* let mut expr = primary()?; while let LeftParen = peek().kind { next(); args = vec![];
\* if peek().kind != RightParen { loop .. } }
ArgsOpen ==
    /\ arglist.at = "idle"
    /\ \E n \in ArgCounts :
        \E toks \in {Scan(SrcArgs(n))} :
            \E ps \in {next(toks, Descend("primary", toks, arglist.ps).ps).ps} :
                arglist' = [toks |-> toks, ps |-> ps, args |-> <<>>,
                            at |-> IF peek(toks, ps).kind # "RightParen" THEN "loop"
                                   ELSE "close",
                            error |-> None]
    /\ UNCHANGED <<tree, chunk, added, parser, interpVars, cactusVars, lexVars>>

ArgsTurn ==
    /\ arglist.at = "loop"
    /\ \E turn \in {call_args_turn(arglist.toks, arglist.ps, arglist.args)} :
        arglist' = [arglist EXCEPT !.at = turn.at, !.ps = turn.ps, !.args = turn.args,
                                   !.error = turn.error]
    /\ UNCHANGED <<tree, chunk, added, parser, interpVars, cactusVars, lexVars>>

\* let paren = match_next(RightParen).map_err(..)?;
\* expr = Expr::Call { callee: push_expr(expr), paren, args: args.map(push_expr) }
ArgsClose ==
    /\ arglist.at = "close"
    /\ \E paren \in {Expect(arglist.toks, POk(arglist.ps, None), "RightParen",
                            "Expect ')' after arguments.")} :
        IF ~paren.ok
        THEN arglist' = [arglist EXCEPT !.at = "error", !.ps = paren.ps,
                                        !.error = Some(paren.v)]
        ELSE \E pargs \in {push_exprs(push_expr(paren.ps.ast,
                                                Descend("primary", arglist.toks,
                                                        [paren.ps EXCEPT !.pos = 1]).v).ast,
                                      arglist.args, <<>>)} :
                arglist' = [arglist EXCEPT !.at = "done",
                                           !.ps = WithAst(paren.ps, pargs.ast),
                                           !.args = pargs.idxs]
    /\ UNCHANGED <<tree, chunk, added, parser, interpVars, cactusVars, lexVars>>

NextArgs == ArgsOpen \/ ArgsTurn \/ ArgsClose

SpecArgs == Init /\ [][NextArgs]_vars

\* the arguments written in the source
ArgsWritten == Cardinality({k \in DOMAIN arglist.toks : arglist.toks[k].kind = "Number"})

\* the position in the source of its j-th argument
ArgPosition(j) == 2 * j + 1

(***************************************************************************)
(* C22: an argument list of 0 to 255 arguments parses: the loop ends with  *)
(* as many arguments as were written and the call is built.  The error     *)
(* "Can't have more than 255 arguments" is reported exactly when 255       *)
(* arguments are parsed and a 256th is next, and names that argument.      *)
(***************************************************************************)
C22_ArityCap ==
    /\ arglist.at = "error" =>
        /\ ArgsWritten > 255
        /\ Len(arglist.args) = 255
        /\ arglist.error = Some([token |-> arglist.toks[ArgPosition(256)],
                                 message |-> "Can't have more than 255 arguments"])
    /\ arglist.at \in {"close", "done"} =>
        /\ ArgsWritten <= 255
        /\ Len(arglist.args) = ArgsWritten
    /\ (arglist.at = "loop" /\ Len(arglist.args) < 255) =>
            call_args_turn(arglist.toks, arglist.ps, arglist.args).at # "error"
    /\ arglist.at = "done" =>
        \A j \in 1 .. ArgsWritten :
            expr(arglist.ps.ast, arglist.args[j]).k = "Literal"

\* 255 arguments were parsed and the 256th was refused
C22_Witness ==
    /\ arglist.at = "error"
    /\ ArgsWritten = 256
    /\ Len(arglist.args) = 255

\* a list of exactly 255 arguments was parsed into a call
C22_WitnessFull ==
    /\ arglist.at = "done"
    /\ ArgsWritten = 255
    /\ Len(arglist.args) = 255

\* section C24
(***************************************************************************)
(* SpecParse: parse's loop, one declaration per step, on every stream of   *)
(* at most MaxToks tokens of ParseWords followed by Eof.  A declaration    *)
(* nested in a block at position p of a stream is the first declaration of *)
(* the stream's suffix from p, which is a stream of the set again.         *)
(***************************************************************************)
MaxToks == 4

ParseWords == {"var", "print", "x", "1", ";", "{", "}"}

WordStreams == UNION {[1 .. n -> ParseWords] : n \in 0 .. MaxToks}

\* let mut ast = Ast::new();
ParseOpen ==
    /\ parser.at = "idle"
    /\ \E words \in WordStreams :
        parser' = [toks |-> Scan(words), ps |-> [pos |-> 1, ast |-> AstNew, diag |-> <<>>],
                   at |-> "loop", from |-> 1, failed |-> None]
    /\ UNCHANGED <<arglist, tree, chunk, added, interpVars, cactusVars, lexVars>>

\* A turn that runs declaration on a copy of the stream: the stream stays where it was.
ParseTurnOnCopy ==
    /\ parser.at = "loop"
    /\ ~eof(parser.toks, parser.ps)
    /\ \E result \in {Descend("declaration_arm", parser.toks, parser.ps)} :
        parser' = [parser EXCEPT !.ps = [PushRoot(Recover(parser.toks, result))
                                            EXCEPT !.pos = parser.ps.pos],
                                 !.from = parser.ps.pos,
                                 !.failed = IF result.ok THEN None ELSE Some(result.ps.pos)]
    /\ UNCHANGED <<arglist, tree, chunk, added, interpVars, cactusVars, lexVars>>

\* while !stream.eof() { let stmt = declaration(..); ast.push_root_stmt(stmt); }
ParseTurn ==
    /\ parser.at = "loop"
    /\ ~eof(parser.toks, parser.ps)
    /\ \E result \in {Descend("declaration_arm", parser.toks, parser.ps)} :
        parser' = [parser EXCEPT !.ps = PushRoot(Recover(parser.toks, result)),
                                 !.from = parser.ps.pos,
                                 !.failed = IF result.ok THEN None ELSE Some(result.ps.pos)]
    /\ UNCHANGED <<arglist, tree, chunk, added, interpVars, cactusVars, lexVars>>

\* Ok(ast)
ParseReturn ==
    /\ parser.at = "loop"
    /\ eof(parser.toks, parser.ps)
    /\ parser' = [parser EXCEPT !.at = "done"]
    /\ UNCHANGED <<arglist, tree, chunk, added, interpVars, cactusVars, lexVars>>

NextParse == ParseOpen \/ ParseTurn \/ ParseReturn

SpecParse == Init /\ [][NextParse]_vars

\* the next token at p begins a statement or is Eof
AtSyncKind(toks, p) == toks[p].kind \in SyncKinds

\* the token consumed last before p is a semicolon
AfterSemicolon(toks, p) == p > 1 /\ toks[p - 1].kind = "Semicolon"

\* The first point from the failure at f on where the next token is Eof or a
\* statement keyword, or where synchronization has consumed a semicolon.
FirstSyncPoint(toks, f) ==
    CHOOSE p \in f .. Len(toks) :
        /\ AtSyncKind(toks, p) \/ (p > f /\ AfterSemicolon(toks, p))
        /\ \A q \in f .. (p - 1) : ~(AtSyncKind(toks, q) \/ (q > f /\ AfterSemicolon(toks, q)))

\* The first such point after the token at f, which is discarded unseen.
FirstSyncPointAfterOne(toks, f) ==
    IF toks[f].kind = "Eof" THEN f
    ELSE CHOOSE p \in (f + 1) .. Len(toks) :
        /\ AtSyncKind(toks, p) \/ AfterSemicolon(toks, p)
        /\ \A q \in (f + 1) .. (p - 1) : ~(AtSyncKind(toks, q) \/ AfterSemicolon(toks, q))

(***************************************************************************)
(* C24: after a failed declaration, synchronization stops at the first     *)
(* point where the next token is Eof or a statement keyword or where it    *)
(* has consumed a semicolon: the tokens from the point of the failure up   *)
(* to there are discarded and none at or after it.                         *)
(***************************************************************************)
C24_SyncStopsAtFirstPoint ==
    parser.failed # None =>
        parser.ps.pos = FirstSyncPoint(parser.toks, Unwrap(parser.failed))

\* What holds: the token at the failure is discarded whatever it is, and
\* synchronization stops at the first such point after it.
C24_SyncStopsAfterOneToken ==
    parser.failed # None =>
        parser.ps.pos = FirstSyncPointAfterOne(parser.toks, Unwrap(parser.failed))

\* a declaration failed at a statement keyword and the keyword was discarded
C24_KeywordDiscarded ==
    /\ parser.failed # None
    /\ parser.toks[Unwrap(parser.failed)].kind \in SyncKinds \ {"Eof"}
    /\ parser.ps.pos > Unwrap(parser.failed)

\* section C27
(***************************************************************************)
(* SpecExpr: parse on every expression statement of at most MaxExprToks    *)
(* tokens, each a number or one of the operator tokens, before its `;`.    *)
(***************************************************************************)
MaxExprToks == 3

ExprWords == {"1", "!", "-", "+", "*", "/", ">", ">=", "<", "<=", "!=", "==", "and", "or"}

ExprStreams == UNION {[1 .. n -> ExprWords] : n \in 0 .. MaxExprToks}

ExprOpen ==
    /\ parser.at = "idle"
    /\ \E words \in ExprStreams :
        parser' = [toks |-> Scan(words \o <<";">>),
                   ps |-> [pos |-> 1, ast |-> AstNew, diag |-> <<>>],
                   at |-> "loop", from |-> 1, failed |-> None]
    /\ UNCHANGED <<arglist, tree, chunk, added, interpVars, cactusVars, lexVars>>

NextExpr == ExprOpen \/ ParseTurn \/ ParseReturn

SpecExpr == Init /\ [][NextExpr]_vars

\* the operator kinds that the arms of evaluate's match on a Unary and on a
\* Binary node name; any other kind falls to `_ => unreachable!()`
UnaryArms == {"Bang", "Minus"}

BinaryArms ==
    {"Minus", "Slash", "Star", "Plus", "Greater", "GreaterEqual", "Less", "LessEqual",
     "BangEqual", "EqualEqual"}

ReachesUnreachable(e) ==
    \/ e.k = "Unary" /\ e.operator.kind \notin UnaryArms
    \/ e.k = "Binary" /\ e.operator.kind \notin BinaryArms

(***************************************************************************)
(* C27: no node of an AST that the parser produces takes the evaluator to  *)
(* an unreachable!() arm.  A Unary node's operator is `!` or `-`, a Binary *)
(* node's is one of - / * + > >= < <= != ==, and the `and` and `or` tokens *)
(* are the operators of Logical nodes only, which carry nothing else.      *)
(***************************************************************************)
C27_OperatorsMatchArms ==
    \A i \in DOMAIN parser.ps.ast.exprs :
        LET e == parser.ps.ast.exprs[i] IN
        /\ ~ReachesUnreachable(e)
        /\ e.k \in {"Unary", "Binary"} => e.operator.kind \notin {"And", "Or"}
        /\ e.k = "Logical" => e.operator.kind \in {"And", "Or"}

\* a statement with a Binary node over two literals was parsed without an error
C27_Witness ==
    /\ parser.at = "done"
    /\ parser.ps.diag = <<>>
    /\ \E i \in DOMAIN parser.ps.ast.exprs :
        /\ parser.ps.ast.exprs[i].k = "Binary"
        /\ parser.ps.ast.exprs[i].operator.kind = "LessEqual"
        /\ expr(parser.ps.ast, parser.ps.ast.exprs[i].left).k = "Literal"

\* a statement with a Unary node inside a Unary node was parsed without an error
C27_WitnessUnary ==
    /\ parser.at = "done"
    /\ parser.ps.diag = <<>>
    /\ \E i \in DOMAIN parser.ps.ast.exprs :
        /\ parser.ps.ast.exprs[i].k = "Unary"
        /\ expr(parser.ps.ast, parser.ps.ast.exprs[i].right).k = "Unary"

\* a statement with a Logical node was parsed without an error
C27_WitnessLogical ==
    /\ parser.at = "done"
    /\ parser.ps.diag = <<>>
    /\ \E i \in DOMAIN parser.ps.ast.exprs :
        /\ parser.ps.ast.exprs[i].k = "Logical"
        /\ parser.ps.ast.exprs[i].operator.kind = "Or"

\* section C26
\* where declaration leaves the stream when it is called at position p
DeclarationEnd(toks, p) == Descend("declaration", toks, [pos |-> p, ast |-> AstNew, diag |-> <<>>]).ps.pos

(***************************************************************************)
(* C26: parse terminates and returns an AST.  Every call of declaration at *)
(* a token other than Eof, at the top level or nested in a block, leaves   *)
(* the stream further on than it found it, also when it fails and          *)
(* synchronizes; so each turn of parse's loop consumes at least one token, *)
(* the roots pushed never outnumber the tokens consumed, and the loop ends *)
(* at Eof with the AST that parse returns, a statement for each root.      *)
(***************************************************************************)
C26_ParseTerminates ==
    parser.at \in {"loop", "done"} =>
        /\ \A p \in 1 .. (Len(parser.toks) - 1) : DeclarationEnd(parser.toks, p) > p
        /\ roots(parser.ps.ast) # <<>> => parser.ps.pos > parser.from
        /\ Len(roots(parser.ps.ast)) <= parser.ps.pos - 1
        /\ parser.ps.pos <= Len(parser.toks)
        /\ parser.at = "done" =>
            /\ eof(parser.toks, parser.ps)
            /\ parse(parser.toks) = ParseResult(parser.ps)
            /\ \A i \in DOMAIN roots(parser.ps.ast) :
                roots(parser.ps.ast)[i] + 1 \in DOMAIN parser.ps.ast.stmts

\* a declaration inside a block failed and synchronized, the block was closed,
\* and parse returned
C26_Witness ==
    /\ parser.at = "done"
    /\ Len(parser.toks) > 3
    /\ parser.toks[1].kind = "LeftBrace"
    /\ parser.toks[2].kind = "Semicolon"
    /\ parser.toks[3].kind = "RightBrace"
    /\ parser.ps.diag # <<>>
    /\ stmt(parser.ps.ast, roots(parser.ps.ast)[1]).k = "Block"

====
